---- MODULE Spec2Model ----
(***************************************************************************)
(* Model of the dilute-structure descriptor of pySIPFENN                   *)
(* (descriptorDefinitions/KS2022_dilute.py) and of the model adjuster      *)
(* (pysipfenn/core/modelAdjusters.py, LocalAdjuster).                      *)
(*                                                                         *)
(* Numbers.  A float is a pair <<n, d>>: the rational n/d in lowest terms  *)
(* with d > 0, or one of the IEEE specials <<0,0>> (NaN), <<1,0>> (+inf),  *)
(* <<-1,0>> (-inf).  Arithmetic is exact, so rounding of the last bits of  *)
(* a float is not modelled.  Three kinds of entries that are not rational  *)
(* are carried by an exact stand-in, named where they are built: a sphere  *)
(* volume by its coefficient of pi, a p-norm by its radicand, an ionic     *)
(* character 1 - exp(-t/4) by its argument t.                              *)
(*                                                                         *)
(* Crystals.  The geometry and symmetry collaborators (pymatgen VoronoiNN  *)
(* and SpacegroupAnalyzer) are modelled on one-dimensional periodic        *)
(* crystals: sites at distinct integer positions on a ring of length L.    *)
(* The Voronoi cell of a site is the segment between the midpoints towards *)
(* its two nearest sites; the symmetry group is the group of translations  *)
(* and reflections of the ring that map the structure onto itself.         *)
(*                                                                         *)
(* Site indices are 0-based as in the source; a Python list is a sequence, *)
(* a Python dict a sequence of <<key, value>> pairs in insertion order.    *)
(***************************************************************************)
EXTENDS Integers, Sequences, FiniteSets, TLC

VARIABLES
    attribute_matrix,   \* the module-level elemental property table
    world,              \* the inputs of this run: structures, base, faults
    pc,                 \* position of the current invocation
    frame,              \* locals of the current invocation
    calls,              \* completed invocations, oldest first
    threads,            \* the running thread and the context of the waiting one
    adjuster            \* the LocalAdjuster object and the models it refers to

vars == <<attribute_matrix, world, pc, frame, calls, threads, adjuster>>

----------------------------------------------------------------------------
(* Floats *)

Abs(x) == IF x < 0 THEN -x ELSE x

Sgn(x) == IF x < 0 THEN -1 ELSE IF x > 0 THEN 1 ELSE 0

RECURSIVE GCD(_, _)
GCD(a, b) == IF b = 0 THEN a ELSE GCD(b, a % b)

Norm(n, d) ==
    IF d = 0 THEN <<Sgn(n), 0>>
    ELSE LET g == GCD(Abs(n), Abs(d))
             s == IF d < 0 THEN -1 ELSE 1
         IN  <<(s * n) \div g, (s * d) \div g>>

NaN == <<0, 0>>

R(i) == <<i, 1>>

IsNaN(a) == a = NaN

IsFinite(a) == a[2] # 0

RNeg(a) == <<-a[1], a[2]>>

RAbs(a) == <<Abs(a[1]), a[2]>>

RAdd(a, b) ==
    IF IsFinite(a) /\ IsFinite(b) THEN Norm(a[1] * b[2] + b[1] * a[2], a[2] * b[2])
    ELSE IF IsNaN(a) \/ IsNaN(b) THEN NaN
    ELSE IF ~IsFinite(a) /\ ~IsFinite(b) THEN (IF a = b THEN a ELSE NaN)
    ELSE IF IsFinite(a) THEN b ELSE a

RSub(a, b) == RAdd(a, RNeg(b))

RMul(a, b) == Norm(a[1] * b[1], a[2] * b[2])

\* 1/b with IEEE results: 1/0 = inf, 1/inf = 0, 1/NaN = NaN
Recip(b) == Norm(b[2], b[1])

\* numpy division: never raises, x/0 is inf or NaN
RDiv(a, b) == RMul(a, Recip(b))

RLess(a, b) == a[1] * b[2] < b[1] * a[2]

\* np.min / np.max of two values: NaN propagates
RMin(a, b) == IF IsNaN(a) \/ IsNaN(b) THEN NaN ELSE IF RLess(b, a) THEN b ELSE a

RMax(a, b) == IF IsNaN(a) \/ IsNaN(b) THEN NaN ELSE IF RLess(a, b) THEN b ELSE a

RECURSIVE RSum(_)
RSum(s) == IF s = <<>> THEN R(0) ELSE RAdd(s[1], RSum(Tail(s)))

RECURSIVE RMinSeq(_)
RMinSeq(s) == IF Len(s) = 1 THEN s[1] ELSE RMin(s[1], RMinSeq(Tail(s)))

RECURSIVE RMaxSeq(_)
RMaxSeq(s) == IF Len(s) = 1 THEN s[1] ELSE RMax(s[1], RMaxSeq(Tail(s)))

RECURSIVE IPow(_, _)
IPow(b, e) == IF e = 0 THEN 1 ELSE b * IPow(b, e - 1)

RECURSIVE ISum(_)
ISum(s) == IF s = <<>> THEN 0 ELSE s[1] + ISum(Tail(s))

\* the least common denominator of finite floats
RECURSIVE CommonDenominator(_)
CommonDenominator(s) ==
    IF s = <<>> THEN 1
    ELSE LET d == CommonDenominator(Tail(s))
         IN  (s[1][2] * d) \div GCD(s[1][2], d)

\* round(x, 4) of a finite float: to the nearest multiple of 1/10000
Round4(a) ==
    IF ~IsFinite(a) THEN a
    ELSE LET m == 2 * 10000 * Abs(a[1]) + a[2]
             q == m \div (2 * a[2])
         IN  Norm(Sgn(a[1]) * q, 10000)

\* outcomes of a call: a value or a raised exception
Ok(v) == [tag |-> "ok", exc |-> "", value |-> v]

Raise(e) == [tag |-> "error", exc |-> e, value |-> <<>>]

----------------------------------------------------------------------------
(* Elements and the elemental property table *)

\* number of columns selected from the Magpie table
K == 21

Elements == {"Li", "O", "Cr", "Ni", "Zr", "Te"}

\* Element(key).Z
Z(el) ==
    CASE el = "Li" -> 3 [] el = "O" -> 8 [] el = "Cr" -> 24
      [] el = "Ni" -> 28 [] el = "Zr" -> 40 [] el = "Te" -> 52

\* Element(key).X, in units of 1/100
X100(el) ==
    CASE el = "Li" -> 98 [] el = "O" -> 344 [] el = "Cr" -> 166
      [] el = "Ni" -> 191 [] el = "Zr" -> 133 [] el = "Te" -> 210

\* valence occupations <<s, p, d, f>>, columns 8..11 of the selected table
Valence(el) ==
    CASE el = "Li" -> <<1, 0, 0, 0>> [] el = "O" -> <<2, 4, 0, 0>>
      [] el = "Cr" -> <<1, 0, 5, 0>> [] el = "Ni" -> <<2, 0, 8, 0>>
      [] el = "Zr" -> <<2, 0, 2, 0>> [] el = "Te" -> <<2, 4, 10, 0>>

\* the table after loading: one row of K numbers per element.  The data file
\* is not part of the sources; the rows stand in for it (valence columns as
\* above, the others small numbers that differ between the elements).
LoadAttributeMatrix ==
    [el \in Elements |->
        [c \in 1..K |->
            IF c \in 9..12 THEN R(Valence(el)[c - 8])
            ELSE R((Z(el) * c + Z(el) \div 7) % 5)]]

\* A site's species is a token: an element symbol for a fully occupied
\* site, or "Ni0.5" for a site occupied by Ni with occupancy 1/2.
ElementOf(sp) == IF sp = "Ni0.5" THEN "Ni" ELSE sp

Occupancy(sp) == IF sp = "Ni0.5" THEN <<1, 2>> ELSE R(1)

\* str(site.species): the element followed by its amount
SpeciesLabel(sp) == IF sp = "Ni0.5" THEN sp ELSE sp \o "1"

\* a structure is ordered when every site is fully occupied by one element
IsOrdered(struct) == \A i \in 1..Len(struct.sp) : Occupancy(struct.sp[i]) = R(1)

\* lines 34-36 and 41-43: the table rows of the species' elements, weighted
\* by their amounts
SpeciesAttributes(table, sp) ==
    [c \in 1..K |-> RMul(Occupancy(sp), table[ElementOf(sp)][c])]

----------------------------------------------------------------------------
(* local_env_function *)

\* A neighbor record of a local environment: [site |-> [sp, pos], area,
\* face_dist, volume, n_verts].  kind is the number type of the records'
\* entries: "np" (numpy.float64, division by zero gives inf or NaN) or "py"
\* (Python float, division by zero raises).
ScalarKind(local_env, kind) == IF local_env = <<>> THEN "py" ELSE kind

\* a division that fails for a numerator 0 as well
ScalarDivNonZero(a, b, kind) ==
    IF a = R(0) \/ (kind = "py" /\ b = R(0)) THEN Raise("ZeroDivisionError") ELSE Ok(RDiv(a, b))

\* a / b of two scalars of the given kind
ScalarDiv(a, b, kind) ==
    IF kind = "py" /\ b = R(0) THEN Raise("ZeroDivisionError") ELSE Ok(RDiv(a, b))

local_env_function(local_env, site, table, kind) ==
    LET local_attributes == SpeciesAttributes(table, site.sp)
        nbAttr(nb) == SpeciesAttributes(table, nb.site.sp)
        diffTerm(nb, c) == RMul(RAbs(RSub(local_attributes[c], nbAttr(nb)[c])), nb.area)
        diff_attributes == [c \in 1..K |-> RSum([i \in 1..Len(local_env) |-> diffTerm(local_env[i], c)])]
        areas == [i \in 1..Len(local_env) |-> local_env[i].area]
        total_weight == RSum(areas)
        volume == RSum([i \in 1..Len(local_env) |-> local_env[i].volume])
        \* line 47: array / scalar, numpy semantics whatever the scalar
        diffOverWeight == [c \in 1..K |-> RDiv(diff_attributes[c], total_weight)]
        sk == ScalarKind(local_env, kind)
        average == total_weight
        variance == RSum([i \in 1..Len(local_env) |-> RMul(areas[i], areas[i])])
        eff_coord_num == ScalarDiv(RMul(average, average), variance, sk)
        blenSum == RSum([i \in 1..Len(local_env) |->
                        RMul(areas[i], RMul(R(2), local_env[i].face_dist))])
        blen_average == ScalarDiv(blenSum, total_weight, sk)
        blenVarSum == RSum([i \in 1..Len(local_env) |->
                        RMul(areas[i], RAbs(RSub(RMul(R(2), local_env[i].face_dist),
                                                 blen_average.value)))])
        blen_var == ScalarDiv(blenVarSum, RMul(total_weight, blen_average.value), sk)
        sphere_rad == RMinSeq([i \in 1..Len(local_env) |-> local_env[i].face_dist])
        \* (4/3) pi r^3, carried as its coefficient of pi
        sphere_volume == RMul(<<4, 3>>, RMul(sphere_rad, RMul(sphere_rad, sphere_rad)))
    IN  IF eff_coord_num.tag = "error" THEN eff_coord_num
        ELSE IF blen_average.tag = "error" THEN blen_average
        ELSE IF blen_var.tag = "error" THEN blen_var
        ELSE IF local_env = <<>> THEN Raise("ValueError")
        ELSE Ok(<< <<eff_coord_num.value, blen_average.value, blen_var.value,
                     volume, sphere_volume>> \o diffOverWeight,
                   local_attributes >>)

----------------------------------------------------------------------------
(* findDilute *)

RECURSIVE Count(_, _)
Count(list, v) ==
    IF list = <<>> THEN 0
    ELSE (IF list[1] = v THEN 1 ELSE 0) + Count(Tail(list), v)

\* list.index(v), 0-based
ListIndex(list, v) == (CHOOSE i \in 1..Len(list) : list[i] = v /\ \A j \in 1..(i - 1) : list[j] # v) - 1

\* the keys of dict(Counter(list)): the distinct values, by first occurrence
CounterKeys(list) ==
    SelectSeq([i \in 1..Len(list) |-> <<i, list[i]>>],
              LAMBDA p : \A j \in 1..(p[1] - 1) : list[j] # p[2])

findDilute(struct) ==
    LET spoList == struct.sp
        keys == CounterKeys(spoList)
        singles == SelectSeq(keys, LAMBDA p : Count(spoList, p[2]) = 1)
        spDilute == [i \in 1..Len(singles) |-> ListIndex(spoList, singles[i][2])]
    IN  IF Len(keys) - Len(spDilute) = 1
        THEN (IF spDilute = <<>> THEN Raise("IndexError") ELSE Ok(spDilute[1]))
        ELSE Raise("RuntimeError")

----------------------------------------------------------------------------
(* Structures and the two collaborators *)

\* A Structure: [sp, pos, L]: species and position of each site, in site
\* order, and the length of the periodic cell (struct.volume).
NSites(struct) == Len(struct.sp)

Sites(struct) == 0..(NSites(struct) - 1)

\* distance from position p forward (dir = 1) or backward (dir = -1) to the
\* nearest image of site m; a site's own nearest image is one cell away
ImageDist(struct, p, m, dir) ==
    LET d == (dir * (struct.pos[m + 1] - p)) % struct.L
    IN  IF d = 0 THEN struct.L ELSE d

\* the site whose image is nearest in direction dir
NearestSite(struct, n, dir) ==
    CHOOSE m \in Sites(struct) :
        \A k \in Sites(struct) :
            ImageDist(struct, struct.pos[n + 1], m, dir) <= ImageDist(struct, struct.pos[n + 1], k, dir)

\* A structure may carry a further field W: the period of the cell across the
\* line of its sites (a row of sites repeated at distance W).  A structure
\* without it is the bare chain.
Width(struct) == IF "W" \in DOMAIN struct THEN struct.W ELSE 0

\* the face towards the nearest site along the line.  In a row of width W the
\* face has length W and closes a triangle of half the face distance times W.
NeighborRecord(struct, n, dir) ==
    LET m == NearestSite(struct, n, dir)
        d == ImageDist(struct, struct.pos[n + 1], m, dir)
        W == Width(struct)
    IN  [index |-> m,
         site |-> [sp |-> struct.sp[m + 1], pos |-> struct.pos[n + 1] + dir * d],
         area |-> IF W = 0 THEN R(1) ELSE R(W),
         face_dist |-> <<d, 2>>,
         volume |-> IF W = 0 THEN <<d, 2>> ELSE Norm(W * d, 4),
         n_verts |-> IF W = 0 THEN 1 ELSE 2]

\* the face towards the site's own image in the next row: it lies half a
\* width away and reaches from one face along the line to the other
TransverseRecord(struct, n) ==
    LET span == ImageDist(struct, struct.pos[n + 1], NearestSite(struct, n, 1), 1)
                    + ImageDist(struct, struct.pos[n + 1], NearestSite(struct, n, -1), -1)
    IN  [index |-> n,
         site |-> [sp |-> struct.sp[n + 1], pos |-> struct.pos[n + 1]],
         area |-> Norm(span, 2), face_dist |-> Norm(Width(struct), 2),
         volume |-> Norm(span * Width(struct), 8), n_verts |-> 2]

\* records in the order of their index fields, records of one index in the
\* order given
InsertByIndex(sorted, r) ==
    LET k == Cardinality({i \in 1..Len(sorted) : sorted[i].index <= r.index})
    IN  SubSeq(sorted, 1, k) \o <<r>> \o SubSeq(sorted, k + 1, Len(sorted))

RECURSIVE SortByIndex(_)
SortByIndex(rs) ==
    IF rs = <<>> THEN <<>>
    ELSE InsertByIndex(SortByIndex(SubSeq(rs, 1, Len(rs) - 1)), rs[Len(rs)])

\* VoronoiNN.get_voronoi_polyhedra(struct, n): the values of the returned
\* dict, in its order.  The collaborator lists the neighbors in the order of
\* the structure's sites.  The index field is the collaborator's own
\* bookkeeping for that order; the code under analysis never reads it.
get_voronoi_polyhedra(struct, n) ==
    LET right == NeighborRecord(struct, n, 1)
        left == NeighborRecord(struct, n, -1)
        strip(r) == [site |-> r.site, area |-> r.area, face_dist |-> r.face_dist,
                     volume |-> r.volume, n_verts |-> r.n_verts]
        across == IF Width(struct) = 0 THEN <<>>
                  ELSE <<TransverseRecord(struct, n), TransverseRecord(struct, n)>>
        sorted == SortByIndex(<<right, left>> \o across)
    IN  [i \in 1..Len(sorted) |-> strip(sorted[i])]

\* the isometries of the ring: <<1, t>> is x -> x + t, <<-1, t>> is x -> t - x
ApplyIso(g, x, L) == (g[1] * x + g[2]) % L

IsSymmetry(struct, g) ==
    \A i \in Sites(struct) : \E j \in Sites(struct) :
        /\ struct.pos[j + 1] % struct.L = ApplyIso(g, struct.pos[i + 1], struct.L)
        /\ struct.sp[j + 1] = struct.sp[i + 1]

\* SpacegroupAnalyzer(struct).get_symmetry_dataset()['equivalent_atoms']:
\* for every site the lowest index of a site of its orbit
equivalent_atoms(struct) ==
    LET syms == {g \in {1, -1} \X (0..(struct.L - 1)) : IsSymmetry(struct, g)}
        image(g, i) == CHOOSE j \in Sites(struct) :
                          struct.pos[j + 1] % struct.L = ApplyIso(g, struct.pos[i + 1], struct.L)
        orbit(i) == {image(g, i) : g \in syms}
        least(S) == CHOOSE m \in S : \A k \in S : m <= k
    IN  [i \in 1..NSites(struct) |-> least(orbit(i - 1))]

\* a copy in which only the species of the first site is replaced
PureBaseOfFirstSpecies(struct) ==
    [struct EXCEPT !.sp = [i \in 1..NSites(struct) |->
                              IF struct.sp[i] = struct.sp[1] THEN "A" ELSE struct.sp[i]]]

\* baseStruct.copy() with every species replaced by the placeholder 'A'
PureBase(struct) == [struct EXCEPT !.sp = [i \in 1..NSites(struct) |-> "A"]]

----------------------------------------------------------------------------
(* LocalAttributeGenerator.generate_local_attributes_diluteSite *)

\* sites[structSiteN] == neighborSite, or is_periodic_image(neighborSite)
MatchesSite(struct, structSiteN, neighborSite) ==
    /\ struct.sp[structSiteN + 1] = neighborSite.sp
    /\ (neighborSite.pos - struct.pos[structSiteN + 1]) % struct.L = 0

RemoveAt(list, i) == SubSeq(list, 1, i - 1) \o SubSeq(list, i + 1, Len(list))

\* the inner for loop over possibleNeighborSites, which removes from the list
\* it iterates: after a removal the iterator's next position skips one entry.
\* Returns <<possibleNeighborSites, identifiedSites>>.
RECURSIVE ScanPool(_, _, _, _, _)
ScanPool(struct, neighborSite, pool, i, identified) ==
    IF i > Len(pool) THEN <<pool, identified>>
    ELSE IF MatchesSite(struct, pool[i], neighborSite)
         THEN ScanPool(struct, neighborSite, RemoveAt(pool, i), i + 1, Append(identified, pool[i]))
         ELSE ScanPool(struct, neighborSite, pool, i + 1, identified)

RECURSIVE IdentifySites(_, _, _, _, _)
IdentifySites(struct, local_env, k, pool, identified) ==
    IF k > Len(local_env) THEN identified
    ELSE LET r == ScanPool(struct, local_env[k].site, pool, 1, identified)
         IN  IdentifySites(struct, local_env, k + 1, r[1], r[2])

\* [str(species), round(face_dist, 4), round(area, 4), n_verts]
FaceRecord(value) ==
    <<SpeciesLabel(value.site.sp), Round4(value.face_dist), Round4(value.area), value.n_verts>>

\* dict(zip(keys, values)): as many pairs as the shorter list has, a repeated
\* key keeps its first place and takes the last value
RECURSIVE DictSet(_, _, _)
DictSet(d, key, val) ==
    IF d = <<>> THEN << <<key, val>> >>
    ELSE IF d[1][1] = key THEN << <<key, val>> >> \o Tail(d)
    ELSE <<d[1]>> \o DictSet(Tail(d), key, val)

RECURSIVE DictZip(_, _, _, _)
DictZip(keys, values, i, d) ==
    IF i > Len(keys) \/ i > Len(values) THEN d
    ELSE DictZip(keys, values, i + 1, DictSet(d, keys[i], values[i]))

DictHas(d, key) == \E i \in 1..Len(d) : d[i][1] = key

DictGet(d, key) == d[CHOOSE i \in 1..Len(d) : d[i][1] = key][2]

neighbor_dict(struct, local_env) ==
    LET possibleNeighborSites == [i \in 1..NSites(struct) |-> i - 1]
        identifiedSites == IdentifySites(struct, local_env, 1, possibleNeighborSites, <<>>)
    IN  DictZip(identifiedSites, [i \in 1..Len(local_env) |-> FaceRecord(local_env[i])], 1, <<>>)

\* the result of generate_local_attributes_diluteSite for a given local_env:
\* the local function's result with the neighbor dict appended
generate_local_attributes_diluteSite(struct, local_env, n, table) ==
    LET r == local_env_function(local_env, [sp |-> struct.sp[n + 1]], table, "np")
    IN  IF r.tag = "error" THEN r
        ELSE Ok(<<r.value[1], r.value[2], neighbor_dict(struct, local_env)>>)

generate_local_attributes(struct, local_env, n, table) ==
    local_env_function(local_env, [sp |-> struct.sp[n + 1]], table, "np")

----------------------------------------------------------------------------
(* generate_voronoi_attributes: keys, groups, multiplicities *)

\* a value of siteLCEparams: the list [class id, record...] or the string 'dilute'
ListValue(items) == [tag |-> "list", items |-> items]

DiluteValue == [tag |-> "str", items |-> <<>>]

\* the for loop of lines 112-113: append each neighbor's record to the list
\* of its site; an index that is no key raises KeyError, the string 'dilute'
\* has no append
RECURSIVE AppendRecords(_, _, _)
AppendRecords(params, faces, i) ==
    IF i > Len(faces) THEN Ok(params)
    ELSE LET siteN == faces[i][1]
         IN  IF ~DictHas(params, siteN) THEN Raise("KeyError")
             ELSE IF DictGet(params, siteN).tag = "str" THEN Raise("AttributeError")
             ELSE AppendRecords(
                      DictSet(params, siteN,
                              ListValue(Append(DictGet(params, siteN).items, faces[i][2]))),
                      faces, i + 1)

\* lines 110-113
siteLCEparams(originalEquivalents, diluteSite, neighborsFacesDict) ==
    LET zipped == [i \in 1..Len(originalEquivalents) |->
                      <<i - 1, ListValue(<<originalEquivalents[i]>>)>>]
        marked == DictSet(zipped, diluteSite, DiluteValue)
    IN  AppendRecords(marked, neighborsFacesDict, 1)

\* a key text made of the class id alone
ParamsStringOfClass(value) ==
    IF value.tag = "str" THEN "dilute" ELSE ToString(<<value.items[1]>>)

\* ''.join(str(value)): the text of the list, or the string itself
ParamsString(value) == IF value.tag = "str" THEN "dilute" ELSE ToString(value.items)

\* lines 116-122: the dict from key string to the list of its sites
RECURSIVE GroupSites(_, _, _)
GroupSites(params, i, groups) ==
    IF i > Len(params) THEN groups
    ELSE LET key == ParamsString(params[i][2])
             siteN == params[i][1]
         IN  GroupSites(params, i + 1,
                        IF DictHas(groups, key)
                        THEN DictSet(groups, key, Append(DictGet(groups, key), siteN))
                        ELSE Append(groups, <<key, <<siteN>>>>))

\* lines 116-122 without the del of line 123
equivalentGroupsKeepingDilute(params) == GroupSites(params, 1, <<>>)

\* lines 116-123, with the dilute site's group deleted
equivalentGroups(params) ==
    SelectSeq(GroupSites(params, 1, <<>>), LAMBDA g : g[1] # "dilute")

\* last member of each group -> size of the group
equivalentSitesMultiplicitiesOfLast(groups) ==
    DictZip([i \in 1..Len(groups) |-> groups[i][2][Len(groups[i][2])]],
            [i \in 1..Len(groups) |-> Len(groups[i][2])], 1, <<>>)

\* lines 125-127: first member of each group -> size of the group
equivalentSitesMultiplicities(groups) ==
    DictZip([i \in 1..Len(groups) |-> groups[i][2][1]],
            [i \in 1..Len(groups) |-> Len(groups[i][2])], 1, <<>>)

\* a list that holds the element once, whatever the factor
RepeatOnce(x, n) == <<x>>

\* line 131: localAttributes * n
Repeat(x, n) == [i \in 1..n |-> x]

----------------------------------------------------------------------------
(* generate_descriptor: statistics, normalization, composition attributes *)

\* number of structural components of a sample: 5 + K
NStruct == 5 + K

Mean(col) == RDiv(RSum(col), R(Len(col)))

MeanAbsDev(col) ==
    LET m == Mean(col) IN Mean([i \in 1..Len(col) |-> RAbs(RSub(col[i], m))])

\* KS2022.magpie_mode on one column: the most frequent value, and the first
\* value when all are unique.  Among several most frequent values the least
\* is taken, so that nothing but the all-unique case depends on the order of
\* the samples.
magpie_mode(col) ==
    LET n(i) == Cardinality({j \in 1..Len(col) : col[j] = col[i]})
        top == {i \in 1..Len(col) : \A j \in 1..Len(col) : n(j) <= n(i)}
        best == CHOOSE i \in top : \A j \in top : ~RLess(col[j], col[i])
    IN  IF \A i \in 1..Len(col) : n(i) = 1 THEN col[1] ELSE col[best]

StructStats(col) ==
    LET lo == RMinSeq(col)
        hi == RMaxSeq(col)
    IN  <<Mean(col), MeanAbsDev(col), lo, hi, RSub(hi, lo)>>

ElemStats(col) ==
    LET lo == RMinSeq(col)
        hi == RMaxSeq(col)
    IN  <<Mean(col), RSub(hi, lo), MeanAbsDev(col), hi, lo, magpie_mode(col)>>

\* lines 176-189: the statistics of every component, component by component
Statistics(diff_properties, attribute_properties) ==
    LET n == Len(diff_properties)
        ss == [c \in 1..NStruct |-> StructStats([i \in 1..n |-> diff_properties[i][c]])]
        es == [c \in 1..K |-> ElemStats([i \in 1..n |-> attribute_properties[i][c]])]
    IN  [j \in 1..(5 * NStruct) |-> ss[((j - 1) \div 5) + 1][((j - 1) % 5) + 1]]
        \o [j \in 1..(6 * K) |-> es[((j - 1) \div 6) + 1][((j - 1) % 6) + 1]]

\* properties[i] /= properties[j], 0-based positions
DivideAt(properties, i, j) ==
    [properties EXCEPT ![i + 1] = RDiv(properties[i + 1], properties[j + 1])]

\* a normalization that divides the statistics of the third component too
NormalizeWithCV(properties) ==
    DivideAt(DivideAt(DivideAt(DivideAt(
        DivideAt(DivideAt(DivideAt(DivideAt(properties, 6, 5), 7, 5), 8, 5), 16, 15),
        10, 5), 11, 5), 12, 5), 13, 5)

\* lines 191-195
Normalize(properties) ==
    DivideAt(DivideAt(DivideAt(DivideAt(properties, 6, 5), 7, 5), 8, 5), 16, 15)

\* np.delete that leaves the first listed position in place
NpDeleteButFirst(properties, positions) ==
    LET first == CHOOSE x \in positions : \A y \in positions : x <= y
        kept == SelectSeq([i \in 1..Len(properties) |-> i],
                          LAMBDA i : (i - 1) \notin (positions \ {first}))
    IN  [k \in 1..Len(kept) |-> properties[kept[k]]]

\* the positions removed by np.delete, 0-based
DeletedPositions == {4, 5, 9, 14, 15, 17, 18, 19, 21, 22, 23, 24}

NpDelete(properties, positions) ==
    LET kept == SelectSeq([i \in 1..Len(properties) |-> i], LAMBDA i : (i - 1) \notin positions)
    IN  [k \in 1..Len(kept) |-> properties[kept[k]]]

\* np.insert(properties, position, value), 0-based position
NpInsert(properties, position, value) ==
    SubSeq(properties, 1, position) \o <<value>> \o SubSeq(properties, position + 1, Len(properties))

\* an element_dict that gives every element the same share
element_dictEqualShares(struct) ==
    LET keys == CounterKeys(struct.sp)
    IN  [i \in 1..Len(keys) |-> <<keys[i][2], Norm(1, Len(keys))>>]

\* lines 201-207: element -> sum of its amounts over the sites, divided by
\* the number of sites; the elements in order of first occurrence
element_dict(struct) ==
    LET els == [i \in 1..NSites(struct) |-> ElementOf(struct.sp[i])]
        keys == CounterKeys(els)
        amount(e) == RSum([i \in 1..NSites(struct) |->
                              IF els[i] = e
                              THEN RDiv(Occupancy(struct.sp[i]), R(NSites(struct)))
                              ELSE R(0)])
    IN  [i \in 1..Len(keys) |-> <<keys[i][2], amount(keys[i][2])>>]

\* math.pow(sum(value^p), 1/p), carried as its radicand sum(value^p)
NormP(edict, p) ==
    LET D == CommonDenominator([i \in 1..Len(edict) |-> edict[i][2]])
        num(i) == edict[i][2][1] * (D \div edict[i][2][2])
    IN  Norm(ISum([i \in 1..Len(edict) |-> IPow(num(i), p)]), IPow(D, p))

\* lines 208-212: five inserts at the same position, then the element count
RECURSIVE InsertNorms(_, _, _, _)
InsertNorms(properties, edict, ps, position) ==
    IF ps = <<>> THEN properties
    ELSE InsertNorms(NpInsert(properties, position, NormP(edict, ps[1])), edict, Tail(ps), position)

\* a stoichiometry that appends the count and the norms at the end
StoichiometryAppended(properties, edict) ==
    properties \o <<R(Len(edict))>>
        \o [k \in 1..5 |-> NormP(edict, <<10, 7, 5, 3, 2>>[k])]

Stoichiometry(properties, edict) ==
    NpInsert(InsertNorms(properties, edict, <<10, 7, 5, 3, 2>>, 118), 118, R(Len(edict)))

\* valence fractions that divide by the s and p occupations only
ValenceFractionsOfSP(edict, table) ==
    LET occ(o) == RSum([i \in 1..Len(edict) |-> RMul(edict[i][2], table[edict[i][1]][8 + o])])
    IN  [o \in 1..4 |-> RDiv(occ(o), RAdd(occ(1), occ(2)))]

\* lines 214-223: the four valence fractions
ValenceFractions(edict, table) ==
    LET occ(o) == RSum([i \in 1..Len(edict) |-> RMul(edict[i][2], table[edict[i][1]][8 + o])])
        total_valence_factor == RSum([o \in 1..4 |-> occ(o)])
    IN  [o \in 1..4 |-> RDiv(occ(o), total_valence_factor)]

\* an argument that adds the two electronegativities
IonicArgOfSum(el1, el2) == (X100(el1) + X100(el2)) * (X100(el1) + X100(el2))

\* (X1 - X2)^2, the argument t of an ionic character 1 - exp(-t/4), in 1/10000
IonicArg(el1, el2) == (X100(el1) - X100(el2)) * (X100(el1) - X100(el2))

RECURSIVE SortedSeq(_)
SortedSeq(S) ==
    IF S = {} THEN <<>>
    ELSE LET m == CHOOSE x \in S : \A y \in S : x <= y
         IN  <<m>> \o SortedSeq(S \ {m})

RECURSIVE Flatten(_)
Flatten(ss) == IF ss = <<>> THEN <<>> ELSE ss[1] \o Flatten(Tail(ss))

\* lines 225-234.  max_ionic_char is carried by the largest argument t (the
\* ionic character grows with t and is 0 at t = 0).  av_ionic_char is a sum
\* of terms (1 - exp(-t/4)) * w; it is carried by its terms <<t, w>> with
\* t > 0 in increasing order of t, and is the number 0 when there is none.
IonicAttributes(edict) ==
    LET pairs == (1..Len(edict)) \X (1..Len(edict))
        t(pr) == IonicArg(edict[pr[1]][1], edict[pr[2]][1])
        ts == SortedSeq({t(pr) : pr \in pairs})
        tmax == IF ts = <<>> THEN 0 ELSE ts[Len(ts)]
        pos == SelectSeq(ts, LAMBDA x : x > 0)
        tseq(x) == SortedSeq({(pr[1] - 1) * Len(edict) + pr[2] : pr \in {q \in pairs : t(q) = x}})
        weight(x) == RSum([k \in 1..Len(tseq(x)) |->
                        RMul(edict[((tseq(x)[k] - 1) \div Len(edict)) + 1][2],
                             edict[((tseq(x)[k] - 1) % Len(edict)) + 1][2])])
        av == IF pos = <<>> THEN R(0)
              ELSE Flatten([k \in 1..Len(pos) |-> <<pos[k]>> \o weight(pos[k])])
    IN  <<Norm(tmax, 10000), av>>

\* generate_descriptor after generate_voronoi_attributes has returned
Descriptor(struct, diff_properties, attribute_properties, table) ==
    LET properties0 == NpDelete(Normalize(Statistics(diff_properties, attribute_properties)),
                                DeletedPositions)
        \* line 199: properties[12] *= len(attribute_properties) / struct.volume
        properties1 == [properties0 EXCEPT ![13] =
                           RMul(properties0[13], Norm(Len(attribute_properties), struct.L))]
        edict == element_dict(struct)
    IN  Stoichiometry(properties1, edict) \o ValenceFractions(edict, table)
        \o IonicAttributes(edict)

----------------------------------------------------------------------------
(* Inputs *)

\* largest number of sites of an enumerated structure
MaxSites == 4

\* largest distance between consecutive sites of an enumerated structure
MaxGap == 2

\* invocations of generate_descriptor in one run
MaxCalls == 2

\* largest number of sites of a structure whose sites are reordered
PermSites == 5

\* largest number of sites of a structure that is doubled into a supercell
MaxMotif == 3

\* largest number of neighbors and largest facet area of a local environment
\* handed to local_env_function directly
MaxNeighbors == 2

MaxArea == 2

EnumElements == <<"Ni", "Cr", "Li">>

\* the species lists of n sites in which the elements make their first
\* appearance in the order Ni, Cr, Li (every other list is one of these with
\* the elements renamed)
RECURSIVE SpeciesLists(_)
SpeciesLists(n) ==
    IF n = 0 THEN {<<>>}
    ELSE {Append(sp, EnumElements[k]) :
            sp \in SpeciesLists(n - 1),
            k \in 1..Len(EnumElements)} \cap
         {sp \in [1..n -> {EnumElements[k] : k \in 1..Len(EnumElements)}] :
            \A i \in 1..n : \A k \in 2..Len(EnumElements) :
                sp[i] = EnumElements[k] => \E j \in 1..(i - 1) : sp[j] = EnumElements[k - 1]}

\* the gaps of n sites: all 1, or all 1 but one longer gap
GapLists(n) ==
    {[i \in 1..n |-> 1]}
    \cup {[i \in 1..n |-> IF i = k THEN g ELSE 1] : k \in 1..n, g \in 2..MaxGap}

RECURSIVE PrefixSum(_, _)
PrefixSum(gaps, i) == IF i = 0 THEN 0 ELSE gaps[i] + PrefixSum(gaps, i - 1)

\* the chain with the given species and the given gaps between consecutive
\* sites, the last gap closing the ring
Chain(sp, gaps) ==
    [sp |-> sp, pos |-> [i \in 1..Len(sp) |-> PrefixSum(gaps, i - 1)], L |-> PrefixSum(gaps, Len(gaps))]

StructuresOf(n) == {Chain(sp, gaps) : sp \in SpeciesLists(n), gaps \in GapLists(n)}

EnumStructures == UNION {StructuresOf(n) : n \in 1..MaxSites}

\* the site species of the two structures bundled in profile(): Li2ZrTeO6
\* (JVASP-10001) and the dilute FCC Ni31Cr1 with a second Cr
JVASP10001 ==
    Chain(<<"Li", "Li", "O", "O", "O", "O", "O", "O", "Te", "Zr">>, [i \in 1..10 |-> 1])

Ni30Cr2 ==
    Chain([i \in 1..32 |-> IF i \in {1, 17} THEN "Cr" ELSE "Ni"], [i \in 1..32 |-> 1])

\* the baseStruct argument: the literal 'pure', a Structure, or anything else
PureArg == [kind |-> "pure", struct |-> <<>>]

StructureArg(b) == [kind |-> "Structure", struct |-> b]

OtherArg == [kind |-> "other", struct |-> <<>>]

\* a reference structure of n equally spaced sites of one element
Reference(n) == Chain([i \in 1..n |-> "Ni"], [i \in 1..n |-> 1])

\* what fails in this run: nothing, the symmetry collaborator, or the
\* geometry collaborator at one site
NoFault == <<"none", 0>>

Faults(struct) == {<<"sym", 0>>} \cup {<<"geom", n>> : n \in Sites(struct)}

World(structs, base, fault) == [structs |-> structs, base |-> base, fault |-> fault]

\* one structure, called with 'pure', with a reference structure of as many
\* sites, or with a value that is neither; and the two bundled structures
Worlds ==
    {World(<<st>>, b, NoFault) :
        st \in EnumStructures, b \in {PureArg, OtherArg}}
    \cup {World(<<st>>, StructureArg(Reference(NSites(st))), NoFault) : st \in EnumStructures}
    \cup {World(<<st>>, PureArg, NoFault) : st \in {JVASP10001, Ni30Cr2}}

\* one structure, called with 'pure', and a collaborator that fails
FaultWorlds ==
    UNION {{World(<<st>>, PureArg, f) : f \in Faults(st)} : st \in EnumStructures}

\* the structure with sites i and i + 1 (1-based) exchanged in the site list
SwapSites(struct, i) ==
    LET at(k) == IF k = i THEN i + 1 ELSE IF k = i + 1 THEN i ELSE k
    IN  [sp |-> [k \in 1..NSites(struct) |-> struct.sp[at(k)]],
         pos |-> [k \in 1..NSites(struct) |-> struct.pos[at(k)]],
         L |-> struct.L]

\* an equally spaced structure and the same structure with two sites
\* exchanged in the list
PermWorlds ==
    UNION {{World(<<st, SwapSites(st, i)>>, PureArg, NoFault) : i \in 1..(NSites(st) - 1)} :
              st \in UNION {{Chain(sp, [i \in 1..n |-> 1]) : sp \in SpeciesLists(n)} :
                               n \in 2..PermSites}}

\* struct.make_supercell([2, 1, 1]) with the second copy of the dilute site
\* given the matrix element: twice the cell, still one dilute site
Supercell(struct) ==
    LET d == findDilute(struct).value + 1
        m == CHOOSE e \in {struct.sp[i] : i \in 1..NSites(struct)} : e # struct.sp[d]
    IN  [sp |-> struct.sp \o [struct.sp EXCEPT ![d] = m],
         pos |-> struct.pos \o [i \in 1..NSites(struct) |-> struct.pos[i] + struct.L],
         L |-> 2 * struct.L]

\* a structure with one dilute site in a one-element matrix, and its supercell
SuperWorlds ==
    {World(<<st, Supercell(st)>>, PureArg, NoFault) :
        st \in {x \in UNION {StructuresOf(n) : n \in 3..MaxMotif} :
                  /\ Cardinality({x.sp[i] : i \in 1..NSites(x)}) = 2
                  /\ findDilute(x).tag = "ok"}}

\* largest number of sites of a structure with a partially occupied site
MaxOccupancySites == 3

\* a one-element matrix with one site occupied by Ni with occupancy 1/2,
\* called with 'pure' or with a reference structure of as many sites
OccupancyWorlds ==
    UNION {{World(<<Chain([i \in 1..n |-> IF i = k THEN "Ni0.5" ELSE m], gaps)>>, b, NoFault) :
               k \in 1..n, m \in {"Ni", "Cr"}, gaps \in GapLists(n),
               b \in {PureArg, StructureArg(Reference(n))}} :
              n \in 3..MaxOccupancySites}

\* largest number of sites of a structure with a width
MaxRowSites == 4

\* largest width of a structure
MaxWidth == 2

\* the chain struct as a row of width W; width 0 leaves the bare chain
Row(struct, W) ==
    IF W = 0 THEN struct
    ELSE [sp |-> struct.sp, pos |-> struct.pos, L |-> struct.L, W |-> W]

\* one structure of three sites or more, bare or as a row: every site of a row
\* has its own images in the next rows among its neighbors; called with 'pure'
\* or with a reference structure of the same sites
RowWorlds ==
    UNION {{World(<<Row(st, nW[2])>>, b, NoFault) :
               st \in StructuresOf(nW[1]),
               b \in {PureArg, StructureArg(Row(Reference(nW[1]), nW[2]))}} :
              nW \in (3..MaxRowSites) \X (0..MaxWidth)}

\* largest number of sites of a structure called with a reference structure
\* of another size
MaxBaseSites == 4

\* one structure of three sites or more, called with a reference structure of
\* one site fewer, of as many sites, or of one site more
BaseWorlds ==
    UNION {{World(<<st>>, StructureArg(Reference(m)), NoFault) :
               st \in StructuresOf(n), m \in {n - 1, n, n + 1}} :
              n \in 3..MaxBaseSites}

\* a neighbor record handed to local_env_function directly
NeighborInputs ==
    {[site |-> [sp |-> e, pos |-> 0], area |-> R(a), face_dist |-> <<d, 2>>,
      volume |-> RMul(R(a), <<d, 2>>), n_verts |-> 1] :
        e \in {"Ni", "Cr"}, a \in 0..MaxArea, d \in 1..MaxGap}

\* a local environment, the site it belongs to, and the number type of the
\* records' entries
LocalWorlds ==
    {[local_env |-> env, site |-> [sp |-> e], kind |-> k] :
        env \in UNION {[1..n -> NeighborInputs] : n \in 0..MaxNeighbors},
        e \in {"Ni", "Cr"}, k \in {"np", "py"}}

----------------------------------------------------------------------------
(* The invocation of generate_descriptor, step by step *)

NoFrame ==
    [which |-> 0, struct |-> <<>>, baseStruct |-> <<>>, originalEquivalents |-> <<>>,
     diluteSite |-> -1, attribute_list |-> <<>>, neighborsFacesDict |-> <<>>,
     params |-> <<>>, groups |-> <<>>, mult |-> <<>>, idx |-> 0,
     geom |-> <<>>, sym |-> 0, interleaved |-> FALSE]

\* a run of one thread
NoThreads == [current |-> 0, pc |-> "idle", frame |-> NoFrame]

\* a run that constructs no LocalAdjuster
NoAdjuster == [model |-> 0, adjustedModel |-> 0, heap |-> <<>>]

\* the samples collected so far: <<structural, elemental>> of each entry of
\* attribute_list
Samples(fr) ==
    [i \in 1..Len(fr.attribute_list) |-> <<fr.attribute_list[i][1], fr.attribute_list[i][2]>>]

\* the invocation ends: its outcome and its collaborator calls are recorded
Finish(fr, outcome) ==
    /\ calls' = Append(calls, [which |-> fr.which, outcome |-> outcome,
                               geom |-> fr.geom, sym |-> fr.sym,
                               samples |-> Samples(fr), groups |-> fr.groups,
                               struct |-> fr.struct, baseStruct |-> fr.baseStruct,
                               interleaved |-> fr.interleaved])
    /\ pc' = "idle"
    /\ frame' = NoFrame

\* generate_descriptor(struct, baseStruct) is called; line 84 builds the
\* local generator around struct
Call(w) ==
    /\ pc = "idle"
    /\ Len(calls) < MaxCalls
    /\ frame' = [NoFrame EXCEPT !.which = w, !.struct = world.structs[w],
                                !.baseStruct = world.base]
    /\ pc' = "base"
    /\ UNCHANGED <<attribute_matrix, world, threads, adjuster, calls>>

\* a resolution that replaces the species on struct itself: baseStruct and
\* struct are then one object
ResolveBaseInPlace ==
    /\ pc = "base"
    /\ \/ /\ frame.baseStruct.kind = "Structure"
          /\ frame' = frame
          /\ pc' = "symmetry"
          /\ UNCHANGED calls
       \/ /\ frame.baseStruct.kind = "pure"
          /\ IsOrdered(frame.struct)
          /\ frame' = [frame EXCEPT !.baseStruct = StructureArg(PureBase(frame.struct)),
                                    !.struct = PureBase(frame.struct)]
          /\ pc' = "symmetry"
          /\ UNCHANGED calls
       \/ /\ frame.baseStruct.kind = "pure"
          /\ ~IsOrdered(frame.struct)
          /\ Finish(frame, Raise("AttributeError"))
       \/ /\ frame.baseStruct.kind = "other"
          /\ Finish(frame, Raise("TypeError"))
    /\ UNCHANGED <<attribute_matrix, world, threads, adjuster>>

\* lines 86-94
ResolveBase ==
    /\ pc = "base"
    /\ \/ /\ frame.baseStruct.kind = "Structure"
          /\ frame' = frame
          /\ pc' = "symmetry"
          /\ UNCHANGED calls
       \/ /\ frame.baseStruct.kind = "pure"
          /\ IsOrdered(frame.struct)
          /\ frame' = [frame EXCEPT !.baseStruct = StructureArg(PureBase(frame.struct))]
          /\ pc' = "symmetry"
          /\ UNCHANGED calls
       \* Structure.species (line 91) is not defined for a structure with a
       \* partially occupied site
       \/ /\ frame.baseStruct.kind = "pure"
          /\ ~IsOrdered(frame.struct)
          /\ Finish(frame, Raise("AttributeError"))
       \/ /\ frame.baseStruct.kind = "other"
          /\ Finish(frame, Raise("TypeError"))
    /\ UNCHANGED <<attribute_matrix, world, threads, adjuster>>

\* lines 96-98: the symmetry collaborator on the base structure
Symmetry ==
    /\ pc = "symmetry"
    /\ LET fr == [frame EXCEPT !.sym = @ + 1]
       IN  IF world.fault[1] = "sym"
           THEN Finish(fr, Raise("SymmetryError"))
           ELSE /\ frame' = [fr EXCEPT !.originalEquivalents = equivalent_atoms(frame.baseStruct.struct)]
                /\ pc' = "findDilute"
                /\ UNCHANGED calls
    /\ UNCHANGED <<attribute_matrix, world, threads, adjuster>>

\* line 103
FindDilute ==
    /\ pc = "findDilute"
    /\ LET r == findDilute(frame.struct)
       IN  IF r.tag = "error"
           THEN Finish(frame, r)
           ELSE /\ frame' = [frame EXCEPT !.diluteSite = r.value]
                /\ pc' = "evalDilute"
                /\ UNCHANGED calls
    /\ UNCHANGED <<attribute_matrix, world, threads, adjuster>>

\* the geometry collaborator fails for site n of structure w in this run
GeometryFails(w, n) == w = 1 /\ world.fault = <<"geom", n>>

\* line 104: the geometry collaborator and the local function at the dilute site
EvalDilute ==
    /\ pc = "evalDilute"
    /\ LET n == frame.diluteSite
           fr == [frame EXCEPT !.geom = Append(@, n)]
           r == generate_local_attributes_diluteSite(
                    frame.struct, get_voronoi_polyhedra(frame.struct, n), n, attribute_matrix)
       IN  IF GeometryFails(frame.which, n) THEN Finish(fr, Raise("GeometryError"))
           ELSE IF r.tag = "error" THEN Finish(fr, r)
           ELSE /\ frame' = [fr EXCEPT !.attribute_list = <<r.value>>,
                                       !.neighborsFacesDict = r.value[3]]
                /\ pc' = "group"
                /\ UNCHANGED calls
    /\ UNCHANGED <<attribute_matrix, world, threads, adjuster>>

\* lines 107-127
BuildGroups ==
    /\ pc = "group"
    /\ LET r == siteLCEparams(frame.originalEquivalents, frame.diluteSite,
                              frame.neighborsFacesDict)
           g == equivalentGroups(r.value)
       IN  IF r.tag = "error" THEN Finish(frame, r)
           ELSE /\ frame' = [frame EXCEPT !.params = r.value, !.groups = g,
                                          !.mult = equivalentSitesMultiplicities(g),
                                          !.idx = 1]
                /\ pc' = "evaluate"
                /\ UNCHANGED calls
    /\ UNCHANGED <<attribute_matrix, world, threads, adjuster>>

\* a loop that passes over a representative whose geometry call failed
EvalRepresentativeSkipping ==
    /\ pc = "evaluate"
    /\ frame.idx <= Len(frame.mult)
    /\ LET siteN == frame.mult[frame.idx][1]
           fr == [frame EXCEPT !.geom = Append(@, siteN)]
           r == generate_local_attributes(
                    frame.struct, get_voronoi_polyhedra(frame.struct, siteN), siteN,
                    attribute_matrix)
       IN  IF GeometryFails(frame.which, siteN)
           THEN /\ frame' = [fr EXCEPT !.idx = @ + 1]
                /\ pc' = "evaluate"
                /\ UNCHANGED calls
           ELSE /\ frame' = [fr EXCEPT !.attribute_list =
                                           @ \o Repeat(r.value, frame.mult[frame.idx][2]),
                                       !.idx = @ + 1]
                /\ pc' = "evaluate"
                /\ UNCHANGED calls
    /\ UNCHANGED <<attribute_matrix, world, threads, adjuster>>

\* lines 129-131, one pass of the loop: the representative is evaluated and
\* its result appended once per member of its group
EvalRepresentative ==
    /\ pc = "evaluate"
    /\ frame.idx <= Len(frame.mult)
    /\ LET siteN == frame.mult[frame.idx][1]
           fr == [frame EXCEPT !.geom = Append(@, siteN)]
           r == generate_local_attributes(
                    frame.struct, get_voronoi_polyhedra(frame.struct, siteN), siteN,
                    attribute_matrix)
       IN  IF siteN \notin Sites(frame.struct) THEN Finish(fr, Raise("IndexError"))
           ELSE IF GeometryFails(frame.which, siteN) THEN Finish(fr, Raise("GeometryError"))
           ELSE IF r.tag = "error" THEN Finish(fr, r)
           ELSE /\ frame' = [fr EXCEPT !.attribute_list =
                                           @ \o Repeat(r.value, frame.mult[frame.idx][2]),
                                       !.idx = @ + 1]
                /\ pc' = "evaluate"
                /\ UNCHANGED calls
    /\ UNCHANGED <<attribute_matrix, world, threads, adjuster>>

\* line 133: generate_voronoi_attributes returns the two arrays
ReturnAttributes ==
    /\ pc = "evaluate"
    /\ frame.idx > Len(frame.mult)
    /\ pc' = "descriptor"
    /\ UNCHANGED <<attribute_matrix, world, threads, adjuster, frame, calls>>

diff_properties(fr) == [i \in 1..Len(fr.attribute_list) |-> fr.attribute_list[i][1]]

attribute_properties(fr) == [i \in 1..Len(fr.attribute_list) |-> fr.attribute_list[i][2]]

\* an aggregation that clears the table row of the first element of the
\* structure when it is done
generate_descriptorClearingRow ==
    /\ pc = "descriptor"
    /\ Finish(frame, Ok(Descriptor(frame.struct, diff_properties(frame),
                                   attribute_properties(frame), attribute_matrix)))
    /\ attribute_matrix' = [attribute_matrix EXCEPT
                                ![ElementOf(frame.struct.sp[1])] = [c \in 1..K |-> R(0)]]
    /\ UNCHANGED <<world, threads, adjuster>>

\* lines 176-235
generate_descriptor ==
    /\ pc = "descriptor"
    /\ Finish(frame, Ok(Descriptor(frame.struct, diff_properties(frame),
                                   attribute_properties(frame), attribute_matrix)))
    /\ UNCHANGED <<attribute_matrix, world, threads, adjuster>>

Init ==
    /\ attribute_matrix = LoadAttributeMatrix
    /\ world \in Worlds
    /\ pc = "idle"
    /\ frame = NoFrame
    /\ calls = <<>>
    /\ threads = NoThreads
    /\ adjuster = NoAdjuster

Next ==
    \/ \E w \in 1..Len(world.structs) : Call(w)
    \/ ResolveBase
    \/ Symmetry
    \/ FindDilute
    \/ EvalDilute
    \/ BuildGroups
    \/ EvalRepresentative
    \/ ReturnAttributes
    \/ generate_descriptor

Spec == Init /\ [][Next]_vars

InitFault ==
    /\ attribute_matrix = LoadAttributeMatrix
    /\ world \in FaultWorlds
    /\ pc = "idle"
    /\ frame = NoFrame
    /\ calls = <<>>
    /\ threads = NoThreads
    /\ adjuster = NoAdjuster

SpecFault == InitFault /\ [][Next]_vars

InitOccupancy ==
    /\ attribute_matrix = LoadAttributeMatrix
    /\ world \in OccupancyWorlds
    /\ pc = "idle"
    /\ frame = NoFrame
    /\ calls = <<>>
    /\ threads = NoThreads
    /\ adjuster = NoAdjuster

SpecOccupancy == InitOccupancy /\ [][Next]_vars

InitPerm ==
    /\ attribute_matrix = LoadAttributeMatrix
    /\ world \in PermWorlds
    /\ pc = "idle"
    /\ frame = NoFrame
    /\ calls = <<>>
    /\ threads = NoThreads
    /\ adjuster = NoAdjuster

SpecPerm == InitPerm /\ [][Next]_vars

InitSuper ==
    /\ attribute_matrix = LoadAttributeMatrix
    /\ world \in SuperWorlds
    /\ pc = "idle"
    /\ frame = NoFrame
    /\ calls = <<>>
    /\ threads = NoThreads
    /\ adjuster = NoAdjuster

SpecSuper == InitSuper /\ [][Next]_vars

InitRow ==
    /\ attribute_matrix = LoadAttributeMatrix
    /\ world \in RowWorlds
    /\ pc = "idle"
    /\ frame = NoFrame
    /\ calls = <<>>
    /\ threads = NoThreads
    /\ adjuster = NoAdjuster

SpecRow == InitRow /\ [][Next]_vars

InitBase ==
    /\ attribute_matrix = LoadAttributeMatrix
    /\ world \in BaseWorlds
    /\ pc = "idle"
    /\ frame = NoFrame
    /\ calls = <<>>
    /\ threads = NoThreads
    /\ adjuster = NoAdjuster

SpecBase == InitBase /\ [][Next]_vars

\* Two worker threads: thread t computes descriptors of structure t.  pc and
\* frame are the registers of the running thread; the context of the waiting
\* thread is kept in threads.
ThreadWorlds ==
    {World(<<Chain(sp1, [i \in 1..3 |-> 1]), Chain(sp2, [i \in 1..MaxSites |-> 1])>>,
           PureArg, NoFault) :
        sp1 \in {sp \in SpeciesLists(3) : sp[2] = "Cr"},
        sp2 \in {[i \in 1..MaxSites |-> IF i <= k THEN "Ni" ELSE "Cr"] : k \in {1, MaxSites - 1}}}

\* the scheduler suspends the running thread and resumes the other one; an
\* invocation that is in progress while the other thread has one in progress
\* too is marked as interleaved
Switch ==
    /\ threads.current # 0
    /\ LET both == pc # "idle" /\ threads.pc # "idle"
           mark(fr) == IF both THEN [fr EXCEPT !.interleaved = TRUE] ELSE fr
       IN  /\ threads' = [current |-> 3 - threads.current, pc |-> pc, frame |-> mark(frame)]
           /\ pc' = threads.pc
           /\ frame' = mark(threads.frame)
    /\ UNCHANGED <<attribute_matrix, world, calls, adjuster>>

InitThreads ==
    /\ attribute_matrix = LoadAttributeMatrix
    /\ world \in ThreadWorlds
    /\ pc = "idle"
    /\ frame = NoFrame
    /\ calls = <<>>
    /\ threads = [NoThreads EXCEPT !.current = 1]
    /\ adjuster = NoAdjuster

NextThreads ==
    \/ Call(threads.current)
    \/ ResolveBase
    \/ Symmetry
    \/ FindDilute
    \/ EvalDilute
    \/ BuildGroups
    \/ EvalRepresentative
    \/ ReturnAttributes
    \/ generate_descriptor
    \/ Switch

SpecThreads == InitThreads /\ [][NextThreads]_vars

\* local_env_function is called with the local environment of the run
CallLocalEnvFunction ==
    /\ pc = "local"
    /\ calls' = <<[which |-> 0,
                   outcome |-> local_env_function(world.local_env, world.site,
                                                  attribute_matrix, world.kind),
                   geom |-> <<>>, sym |-> 0, samples |-> <<>>, groups |-> <<>>,
                   struct |-> <<>>, baseStruct |-> <<>>, interleaved |-> FALSE]>>
    /\ pc' = "returned"
    /\ UNCHANGED <<attribute_matrix, world, threads, adjuster, frame>>

InitLocal ==
    /\ attribute_matrix = LoadAttributeMatrix
    /\ world \in LocalWorlds
    /\ pc = "local"
    /\ frame = NoFrame
    /\ calls = <<>>
    /\ threads = NoThreads
    /\ adjuster = NoAdjuster

NextLocal == CallLocalEnvFunction

SpecLocal == InitLocal /\ [][NextLocal]_vars

\* LocalAttributeGenerator(struct, local_env_function) is built and its
\* method generate_local_attributes_diluteSite(n) is called for a site
DiluteSiteWorlds ==
    {[struct |-> st, n |-> n] :
        st \in UNION {StructuresOf(k) : k \in 1..(MaxSites - 1)}, n \in 0..(MaxSites - 2)}

CallDiluteSite ==
    /\ pc = "diluteSite"
    /\ world.n \in Sites(world.struct)
    /\ calls' = <<[which |-> 0,
                   outcome |-> generate_local_attributes_diluteSite(
                                   world.struct,
                                   get_voronoi_polyhedra(world.struct, world.n),
                                   world.n, attribute_matrix),
                   geom |-> <<world.n>>, sym |-> 0, samples |-> <<>>, groups |-> <<>>,
                   struct |-> world.struct, baseStruct |-> <<>>, interleaved |-> FALSE]>>
    /\ pc' = "returned"
    /\ UNCHANGED <<attribute_matrix, world, threads, adjuster, frame>>

\* struct[n] for an index that the structure does not have
CallDiluteSiteOutOfRange ==
    /\ pc = "diluteSite"
    /\ world.n \notin Sites(world.struct)
    /\ calls' = <<[which |-> 0, outcome |-> Raise("IndexError"),
                   geom |-> <<world.n>>, sym |-> 0, samples |-> <<>>, groups |-> <<>>,
                   struct |-> world.struct, baseStruct |-> <<>>, interleaved |-> FALSE]>>
    /\ pc' = "returned"
    /\ UNCHANGED <<attribute_matrix, world, threads, adjuster, frame>>

InitDiluteSite ==
    /\ attribute_matrix = LoadAttributeMatrix
    /\ world \in DiluteSiteWorlds
    /\ pc = "diluteSite"
    /\ frame = NoFrame
    /\ calls = <<>>
    /\ threads = NoThreads
    /\ adjuster = NoAdjuster

NextDiluteSite ==
    \/ CallDiluteSite
    \/ CallDiluteSiteOutOfRange

SpecDiluteSite == InitDiluteSite /\ [][NextDiluteSite]_vars

----------------------------------------------------------------------------
(* LocalAdjuster (pysipfenn/core/modelAdjusters.py).  Models are objects on  *)
(* a heap, referred to by their index; 0 is None.  The weights of a network *)
(* are one number, 0 for the weights loaded by the Calculator; a training   *)
(* epoch of the shuffled batches leaves any weights.  A loss is a number    *)
(* that depends on the weights, the data and the loss function.             *)

MaxWeights == 2

MaxEpochs == 2

MaxAdjustCalls == 2

Weights == 0..MaxWeights

Optimizers == {"Adam", "AdamW", "Adamax", "RMSprop", "SGD"}

SupportedOptimizers == {"Adam", "AdamW", "Adamax", "RMSprop"}

LossFunctions == {"MSE", "MAE", "Huber"}

SupportedLossFunctions == {"MSE", "MAE"}

\* validation fraction, in tenths
Validations == {0, 2}

\* float(loss(model(data, None), target)): a stand-in for the loss of the
\* network with weights w
Loss(lossFunction, data, w) ==
    LET l1 == IF data = "train" THEN MaxWeights + 1 - w
              ELSE 1 + ((w + 1) % (MaxWeights + 1))
    IN  R(IF lossFunction = "MSE" THEN l1 * l1 ELSE l1)

\* the network loaded by the Calculator, in evaluation mode
LoadedModel == [weights |-> 0, training |-> FALSE]

\* __init__, lines 46-114
NewAdjuster == [model |-> 1, adjustedModel |-> 0, heap |-> <<LoadedModel>>]

NoSearch ==
    [bestModel |-> 0, bestTrainingLoss |-> <<1, 0>>, bestValidationLoss |-> <<1, 0>>,
     bestHyperparameters |-> [learningRate |-> "None", optimizer |-> "None",
                              weightDecay |-> "None", epochs |-> -1],
     trainLossHistory |-> <<>>,
     validationLossHistory |-> <<>>, labels |-> <<>>, todo |-> <<>>]

NoAdjustFrame ==
    [caller |-> "user", validation |-> 0, learningRate |-> 0, epochs |-> 0,
     optimizer |-> "", weightDecay |-> 0, lossFunction |-> "", model |-> 0,
     transferLosses |-> <<>>, validationLosses |-> <<>>, epoch |-> 0,
     before |-> 0, search |-> NoSearch]

\* the record of a finished adjust call
AdjustRecord(fr, outcome, returned, after) ==
    [op |-> "adjust", outcome |-> outcome, returned |-> returned,
     copy |-> fr.model, before |-> fr.before, after |-> after]

\* lines 194-228 with model = self.model in place of the deepcopy
BeginAdjustWithoutCopy(fr) ==
    /\ frame' = [fr EXCEPT !.model = adjuster.model, !.before = adjuster.adjustedModel]
    /\ adjuster' = [adjuster EXCEPT !.heap[adjuster.model].training = TRUE]
    /\ pc' = "setup"

\* lines 194-228: the data are split and self.model is copied; the copy is
\* put in training mode
BeginAdjust(fr) ==
    /\ frame' = [fr EXCEPT !.model = Len(adjuster.heap) + 1,
                           !.before = adjuster.adjustedModel]
    /\ adjuster' = [adjuster EXCEPT
                       !.heap = Append(@, [adjuster.heap[adjuster.model] EXCEPT
                                               !.training = TRUE])]
    /\ pc' = "setup"

\* adjust(validation, learningRate, epochs, batchSize, optimizer, weightDecay,
\* lossFunction) is called by the user
adjust(validation, epochs, optimizer, lossFunction) ==
    /\ pc = "idle"
    /\ Len(calls) < MaxAdjustCalls
    /\ BeginAdjust([NoAdjustFrame EXCEPT !.validation = validation, !.epochs = epochs,
                                         !.optimizer = optimizer,
                                         !.lossFunction = lossFunction])
    /\ UNCHANGED <<attribute_matrix, world, calls, threads>>

\* NotImplementedError leaves adjust (lines 240, 248) and, when adjust was
\* called by the search, the search
RaiseNotImplemented ==
    /\ calls' = calls \o <<AdjustRecord(frame, "NotImplementedError", 0, adjuster.adjustedModel)>>
                      \o (IF frame.caller = "search"
                          THEN <<[op |-> "search", outcome |-> "NotImplementedError"]>>
                          ELSE <<>>)
    /\ pc' = "idle"
    /\ frame' = NoFrame

\* lines 231-259: the optimizer and the loss function are chosen and the
\* losses of the untrained copy recorded
SetUpTraining ==
    /\ pc = "setup"
    /\ IF frame.optimizer \notin SupportedOptimizers
          \/ frame.lossFunction \notin SupportedLossFunctions
       THEN RaiseNotImplemented
       ELSE LET w == adjuster.heap[frame.model].weights
            IN  /\ frame' = [frame EXCEPT
                                !.transferLosses = <<Loss(frame.lossFunction, "train", w)>>,
                                !.validationLosses =
                                    IF frame.validation > 0
                                    THEN <<Loss(frame.lossFunction, "validation", w)>>
                                    ELSE <<>>,
                                !.epoch = 0]
                /\ pc' = "train"
                /\ UNCHANGED calls
    /\ UNCHANGED <<attribute_matrix, world, threads, adjuster>>

\* lines 261-293, one epoch: the optimizer steps change the weights of the
\* copy, and the losses after the epoch are appended
TrainEpoch ==
    /\ pc = "train"
    /\ frame.epoch < frame.epochs
    /\ \E w \in Weights :
           /\ adjuster' = [adjuster EXCEPT !.heap[frame.model].weights = w]
           /\ frame' = [frame EXCEPT
                           !.transferLosses = Append(@, Loss(frame.lossFunction, "train", w)),
                           !.validationLosses =
                               IF frame.validation > 0
                               THEN Append(@, Loss(frame.lossFunction, "validation", w))
                               ELSE @,
                           !.epoch = @ + 1]
    /\ pc' = "train"
    /\ UNCHANGED <<attribute_matrix, world, calls, threads>>

\* lines 295-306: the copy is put in evaluation mode, stored in
\* self.adjustedModel and returned with the two lists of losses
FinishAdjust ==
    /\ pc = "train"
    /\ frame.epoch = frame.epochs
    /\ adjuster' = [adjuster EXCEPT !.heap[frame.model].training = FALSE,
                                    !.adjustedModel = frame.model]
    /\ calls' = Append(calls, AdjustRecord(frame, "ok", frame.model, frame.model))
    /\ IF frame.caller = "search"
       THEN pc' = "compare" /\ frame' = frame
       ELSE pc' = "idle" /\ frame' = NoFrame
    /\ UNCHANGED <<attribute_matrix, world, threads>>

InitAdjust ==
    /\ attribute_matrix = LoadAttributeMatrix
    /\ world = [kind |-> "adjuster"]
    /\ pc = "idle"
    /\ frame = NoFrame
    /\ calls = <<>>
    /\ threads = NoThreads
    /\ adjuster = NewAdjuster

NextAdjust ==
    \/ \E validation \in Validations, epochs \in 0..MaxEpochs,
          optimizer \in Optimizers, lossFunction \in LossFunctions :
           adjust(validation, epochs, optimizer, lossFunction)
    \/ SetUpTraining
    \/ TrainEpoch
    \/ FinishAdjust

SpecAdjust == InitAdjust /\ [][NextAdjust]_vars

\* the default grids of matrixHyperParameterSearch, lines 314-316
DefaultLearningRates == <<"1e-6", "1e-5", "1e-4">>

DefaultOptimizers == <<"Adam", "AdamW", "Adamax">>

DefaultWeightDecays == <<"1e-5", "1e-4", "1e-3">>

MaxCombinations == 3

\* the combinations in the order of the three nested loops of lines 360-362
Combinations(learningRates, optimizers, weightDecays) ==
    LET no == Len(optimizers)
        nw == Len(weightDecays)
    IN  [k \in 1..(Len(learningRates) * no * nw) |->
            [learningRate |-> learningRates[((k - 1) \div (no * nw)) + 1],
             optimizer |-> optimizers[(((k - 1) \div nw) % no) + 1],
             weightDecay |-> weightDecays[((k - 1) % nw) + 1]]]

\* the sizes of the three grids of a search
GridSizes ==
    {g \in (1..3) \X (1..3) \X (1..3) : g[1] * g[2] * g[3] <= MaxCombinations}

\* a search over leading parts of the default grids
SearchWorlds ==
    {[kind |-> "search", validation |-> v, epochs |-> e, lossFunction |-> "MAE",
      learningRates |-> SubSeq(DefaultLearningRates, 1, g[1]),
      optimizers |-> SubSeq(DefaultOptimizers, 1, g[2]),
      weightDecays |-> SubSeq(DefaultWeightDecays, 1, g[3])] :
        v \in Validations, e \in 0..MaxEpochs, g \in GridSizes}

\* min((val, idx) for idx, val in enumerate(losses)): the least loss and the
\* first index (from 0) that has it
MinWithIndex(losses) ==
    LET val == RMinSeq(losses)
    IN  <<val, (CHOOSE i \in 1..Len(losses) :
                   /\ losses[i] = val
                   /\ \A j \in 1..(i - 1) : losses[j] # val) - 1>>

\* lines 343-358
matrixHyperParameterSearch ==
    /\ pc = "idle"
    /\ calls = <<>>
    /\ frame' = [NoAdjustFrame EXCEPT
                    !.caller = "search", !.validation = world.validation,
                    !.epochs = world.epochs, !.lossFunction = world.lossFunction,
                    !.search = [NoSearch EXCEPT
                                   !.todo = Combinations(world.learningRates, world.optimizers,
                                                         world.weightDecays)]]
    /\ pc' = "loop"
    /\ UNCHANGED <<attribute_matrix, world, calls, threads, adjuster>>

\* lines 360-373: the next combination is labelled and adjust is called
NextCombination ==
    /\ pc = "loop"
    /\ frame.search.todo # <<>>
    /\ LET c == Head(frame.search.todo)
       IN  BeginAdjust([frame EXCEPT
                           !.learningRate = c.learningRate, !.optimizer = c.optimizer,
                           !.weightDecay = c.weightDecay,
                           !.transferLosses = <<>>, !.validationLosses = <<>>,
                           !.search.labels = Append(@, c),
                           !.search.todo = Tail(@)])
    /\ UNCHANGED <<attribute_matrix, world, calls, threads>>

\* lines 374-407: the histories are kept, and the combination becomes the
\* best one if its least loss is below the best loss so far
Compare ==
    /\ pc = "compare"
    /\ LET useValidation == frame.validation > 0
           local == MinWithIndex(IF useValidation THEN frame.validationLosses
                                 ELSE frame.transferLosses)
           bestEpoch == local[2]
           se == [frame.search EXCEPT
                     !.trainLossHistory = Append(@, frame.transferLosses),
                     !.validationLossHistory = Append(@, frame.validationLosses)]
           improved == RLess(local[1], IF useValidation THEN se.bestValidationLoss
                                       ELSE se.bestTrainingLoss)
       IN  frame' = [frame EXCEPT !.search =
                        IF improved
                        THEN [se EXCEPT
                                 !.bestModel = frame.model,
                                 !.bestTrainingLoss = frame.transferLosses[bestEpoch + 1],
                                 !.bestValidationLoss = IF useValidation THEN local[1] ELSE @,
                                 !.bestHyperparameters =
                                     [learningRate |-> frame.learningRate,
                                      optimizer |-> frame.optimizer,
                                      weightDecay |-> frame.weightDecay,
                                      epochs |-> bestEpoch + 1]]
                        ELSE se]
    /\ pc' = "loop"
    /\ UNCHANGED <<attribute_matrix, world, calls, threads, adjuster>>

\* lines 409-461: the best model is stored in self.adjustedModel and returned
\* with the best hyperparameters
SearchReturn ==
    /\ pc = "loop"
    /\ frame.search.todo = <<>>
    /\ IF frame.search.bestModel = 0
       THEN /\ calls' = Append(calls, [op |-> "search", outcome |-> "AssertionError"])
            /\ UNCHANGED adjuster
       ELSE /\ adjuster' = [adjuster EXCEPT !.adjustedModel = frame.search.bestModel]
            /\ calls' = Append(calls,
                   [op |-> "search", outcome |-> "ok",
                    returned |-> frame.search.bestModel,
                    bestHyperparameters |-> frame.search.bestHyperparameters,
                    labels |-> frame.search.labels,
                    trainLossHistory |-> frame.search.trainLossHistory,
                    validationLossHistory |-> frame.search.validationLossHistory])
    /\ pc' = "idle"
    /\ frame' = NoFrame
    /\ UNCHANGED <<attribute_matrix, world, threads>>

InitSearch ==
    /\ attribute_matrix = LoadAttributeMatrix
    /\ world \in SearchWorlds
    /\ pc = "idle"
    /\ frame = NoFrame
    /\ calls = <<>>
    /\ threads = NoThreads
    /\ adjuster = NewAdjuster

NextSearch ==
    \/ matrixHyperParameterSearch
    \/ NextCombination
    \/ SetUpTraining
    \/ TrainEpoch
    \/ FinishAdjust
    \/ Compare
    \/ SearchReturn

SpecSearch == InitSearch /\ [][NextSearch]_vars

----------------------------------------------------------------------------
(* Properties *)

\* the invocations that have returned a vector
Returned == {i \in 1..Len(calls) : calls[i].outcome.tag = "ok"}

\* the structure an invocation was given
StructOf(c) == world.structs[c.which]

ValidBase == world.base.kind \in {"pure", "Structure"}

\* the signatures of a structure and those that occur exactly once
Signatures(struct) == {struct.sp[i] : i \in 1..NSites(struct)}

SingletonSignatures(struct) == {s \in Signatures(struct) : Count(struct.sp, s) = 1}

\* the number of features LocalAdjuster asserts for the 'KS2022' descriptor
KS2022Features == 256

\* C1: every vector generate_descriptor returns has 256 entries, which is
\* 5 x 26 + 6 x 21 - 12 + 6 + 4 + 2 and the number LocalAdjuster requires,
\* whatever the number of sites and of groups of the structure.
C1_FixedLength ==
    /\ 5 * NStruct + 6 * K - Cardinality(DeletedPositions) + 6 + 4 + 2 = KS2022Features
    /\ \A i \in Returned : Len(calls[i].outcome.value) = KS2022Features

\* a vector has been returned for a structure of three or more sites whose
\* non-dilute sites fell into at least two groups, one of several sites
C1_Witness ==
    \E i \in Returned :
        /\ NSites(StructOf(calls[i])) >= 3
        /\ Len(calls[i].groups) >= 2
        /\ \E g \in 1..Len(calls[i].groups) : Len(calls[i].groups[g][2]) >= 2

\* the samples of evaluating every site of the structure on its own
IndividualSamples(struct) ==
    [i \in 1..NSites(struct) |->
        LET r == generate_local_attributes(struct, get_voronoi_polyhedra(struct, i - 1),
                                           i - 1, LoadAttributeMatrix)
        IN  <<r.value[1], r.value[2]>>]

SameMultiset(s, t) ==
    /\ Len(s) = Len(t)
    /\ \A i \in 1..Len(s) : Count(s, s[i]) = Count(t, s[i])

\* exactly one signature occurs once and every other site has one common signature
ValidDilute(struct) ==
    /\ Cardinality(SingletonSignatures(struct)) = 1
    /\ Cardinality(Signatures(struct)) = 2

\* C2: for a structure with a valid dilute site, the samples that
\* generate_voronoi_attributes returns are, as a multiset, the samples of
\* evaluating every site individually.
C2_ExactSamples ==
    \A i \in Returned :
        ValidDilute(StructOf(calls[i])) =>
            SameMultiset(calls[i].samples, IndividualSamples(StructOf(calls[i])))

\* C3: when the base structure has as many sites as the structure, the
\* groups partition the non-dilute sites: every site but the dilute one is in
\* exactly one group, once; the dilute site is in none; no group is empty.
C3_GroupsPartition ==
    (/\ pc \in {"evaluate", "descriptor"}
     /\ NSites(frame.baseStruct.struct) = NSites(frame.struct))
    => /\ \A n \in Sites(frame.struct) \ {frame.diluteSite} :
              /\ Cardinality({g \in 1..Len(frame.groups) :
                                  \E k \in 1..Len(frame.groups[g][2]) : frame.groups[g][2][k] = n}) = 1
              /\ \A g \in 1..Len(frame.groups) : Count(frame.groups[g][2], n) <= 1
       /\ \A g \in 1..Len(frame.groups) :
              /\ frame.groups[g][2] # <<>>
              /\ \A k \in 1..Len(frame.groups[g][2]) :
                     /\ frame.groups[g][2][k] # frame.diluteSite
                     /\ frame.groups[g][2][k] \in Sites(frame.struct)

\* the groups of a structure of four sites have been built from a base
\* structure of four sites: several groups, one of them of several sites
C3_Witness ==
    /\ pc = "evaluate"
    /\ NSites(frame.struct) = 4
    /\ NSites(frame.baseStruct.struct) = 4
    /\ Len(frame.groups) >= 2
    /\ \E g \in 1..Len(frame.groups) : Len(frame.groups[g][2]) >= 2

\* an invocation that came to findDilute and failed there
FailedInFindDilute(c) ==
    c.outcome.tag = "error" /\ c.sym = 1 /\ c.geom = <<>> /\ world.fault = NoFault

\* C4: findDilute returns a site index only when exactly one signature
\* occurs exactly once; in every other case it raises RuntimeError, and it
\* fails in no other way.
C4_FindDilute ==
    /\ pc = "evalDilute" => Cardinality(SingletonSignatures(frame.struct)) = 1
    /\ \A i \in 1..Len(calls) :
           FailedInFindDilute(calls[i]) => calls[i].outcome.exc = "RuntimeError"

\* C5: for a structure with two or more signatures none of which occurs
\* exactly once, generate_descriptor fails with findDilute's RuntimeError and
\* returns no vector.
C5_AmbiguousDilute ==
    \A i \in 1..Len(calls) :
        (/\ ValidBase
         /\ Cardinality(Signatures(StructOf(calls[i]))) >= 2
         /\ SingletonSignatures(StructOf(calls[i])) = {})
        => calls[i].outcome = Raise("RuntimeError")

\* C6: the outcome of generate_descriptor depends on its arguments only, and
\* for the bundled Li2ZrTeO6 structure in 'pure' mode every invocation
\* returns the same vector.
C6_Deterministic ==
    /\ \A i, j \in 1..Len(calls) :
           calls[i].which = calls[j].which => calls[i].outcome = calls[j].outcome
    /\ (world.structs = <<JVASP10001>> /\ world.base = PureArg)
       => \A i \in 1..Len(calls) : calls[i].outcome.tag = "ok"

\* the collaborator call that failed in an invocation, if any
SymmetryFailed(c) == world.fault[1] = "sym" /\ c.sym > 0

GeometryFailed(c) ==
    /\ world.fault[1] = "geom"
    /\ c.which = 1
    /\ \E k \in 1..Len(c.geom) : c.geom[k] = world.fault[2]

\* C9: there is no partial result.  An error of a collaborator at any site
\* ends the invocation with that error: the failed call is not repeated, no
\* further site is evaluated and nothing is returned.  What an invocation
\* returns is always the complete vector, with a sample for every site.
C9_NoPartialResult ==
    \A i \in 1..Len(calls) :
        LET c == calls[i] IN
        /\ SymmetryFailed(c) =>
               c.outcome = Raise("SymmetryError") /\ c.sym = 1 /\ c.geom = <<>>
        /\ GeometryFailed(c) =>
               /\ c.outcome = Raise("GeometryError")
               /\ c.geom[Len(c.geom)] = world.fault[2]
               /\ Count(c.geom, world.fault[2]) = 1
        /\ c.outcome.tag = "ok" =>
               /\ Len(c.outcome.value) = KS2022Features
               /\ Len(c.samples) = NSites(StructOf(c))
               /\ ~SymmetryFailed(c) /\ ~GeometryFailed(c)

\* the geometry collaborator has failed at a representative after the dilute
\* site and another representative had been evaluated
C9_Witness ==
    \E i \in 1..Len(calls) :
        /\ GeometryFailed(calls[i])
        /\ Len(calls[i].geom) >= 3
        /\ calls[i].outcome = Raise("GeometryError")

\* the two structures of the run have both been evaluated
BothCalled(i, j) ==
    /\ i \in 1..Len(calls) /\ j \in 1..Len(calls)
    /\ calls[i].which = 1 /\ calls[j].which = 2

\* C7: reordering the sites of a structure leaves the outcome of
\* generate_descriptor unchanged: the same vector is returned.
C7_OrderIndependent ==
    \A i, j \in 1..Len(calls) : BothCalled(i, j) => calls[i].outcome = calls[j].outcome

\* C8 as stated: a supercell that still has exactly one dilute site yields
\* the same vector as the structure it was made from.
C8_ScaleInvariant ==
    \A i, j \in 1..Len(calls) :
        (BothCalled(i, j) /\ calls[i].outcome.tag = "ok" /\ calls[j].outcome.tag = "ok")
        => calls[i].outcome.value = calls[j].outcome.value

\* C8: a supercell that still has exactly one dilute site yields a vector of
\* the same length but not the same vector: the number of elements (entry
\* 119, counting from 1) is the same, the five norms of the element
\* fractions (entries 120 to 124) all differ.
C8_SupercellDiffers ==
    \A i, j \in 1..Len(calls) :
        (BothCalled(i, j) /\ calls[i].outcome.tag = "ok" /\ calls[j].outcome.tag = "ok")
        => LET v == calls[i].outcome.value
               w == calls[j].outcome.value
           IN  /\ Len(v) = KS2022Features /\ Len(w) = KS2022Features
               /\ v # w
               /\ v[119] = w[119]
               /\ \A k \in 120..124 : v[k] # w[k]

\* a structure and its supercell have both been given a vector
C8_Witness ==
    \E i, j \in 1..Len(calls) :
        /\ BothCalled(i, j)
        /\ calls[i].outcome.tag = "ok" /\ calls[j].outcome.tag = "ok"
        /\ NSites(world.structs[2]) = 2 * NSites(world.structs[1])

\* the total weight of a local environment: the sum of its facet areas
TotalWeight(local_env) == RSum([i \in 1..Len(local_env) |-> local_env[i].area])

AllFinite(v) == \A i \in 1..Len(v) : IsFinite(v[i])

\* C10: when the total weight is zero (no neighbors, or every facet area
\* zero), local_env_function fails with an error; it never returns a vector
\* with a NaN or an infinity in it.
C10_ZeroWeightFails ==
    pc = "returned" =>
        /\ TotalWeight(world.local_env) = R(0) => calls[1].outcome.tag = "error"
        /\ calls[1].outcome.tag = "ok" => AllFinite(calls[1].outcome.value[1])

\* C11: the four valence fractions that generate_descriptor appends (entries
\* 251 to 254 of the vector, counting from 1) sum to 1.
C11_ValenceSumsToOne ==
    \A i \in Returned :
        RSum(SubSeq(calls[i].outcome.value, 251, 254)) = R(1)

\* a vector has been returned for a structure of two elements with s and d
\* electrons
C11_Witness ==
    \E i \in Returned :
        /\ Len(element_dict(StructOf(calls[i]))) = 2
        /\ calls[i].outcome.value[251] # R(0)
        /\ calls[i].outcome.value[253] # R(0)

\* C12: for a composition that contains a single element both ionic
\* attributes (the last two entries of the vector) are 0.
C12_SingleElementIonicZero ==
    \A i \in Returned :
        Len(element_dict(StructOf(calls[i]))) = 1 =>
            /\ calls[i].outcome.value[255] = R(0)
            /\ calls[i].outcome.value[256] = R(0)

\* a vector has been returned for a structure whose sites all hold Ni, one of
\* them with occupancy 1/2
C12_Witness ==
    \E i \in Returned :
        /\ Len(element_dict(StructOf(calls[i]))) = 1
        /\ \E k \in 1..NSites(StructOf(calls[i])) : StructOf(calls[i]).sp[k] = "Ni0.5"

\* C13: descriptor computations that run interleaved in two threads share no
\* mutable state: the elemental table is never written, and every invocation
\* for a structure has the outcome of the invocations for that structure that
\* ran with the other thread waiting, whatever the interleaving.
C13_NoSharedMutableState ==
    /\ attribute_matrix = LoadAttributeMatrix
    /\ \A i, j \in 1..Len(calls) :
           (calls[i].which = calls[j].which /\ ~calls[i].interleaved)
               => calls[j].outcome = calls[i].outcome

\* a structure has been computed once alone and once interleaved with the
\* computation of the other structure, and both threads returned a vector
C13_Witness ==
    \E i, j, k \in Returned :
        /\ calls[i].which = calls[j].which
        /\ ~calls[i].interleaved
        /\ calls[j].interleaved
        /\ calls[k].which # calls[j].which
        /\ calls[k].interleaved

\* C14: an invocation of generate_descriptor, successful or failing, leaves
\* its inputs as they were: the structure while the invocation runs and when
\* it has ended, a provided base structure, and the elemental table.
C14_InputsUnchanged ==
    /\ attribute_matrix = LoadAttributeMatrix
    /\ frame.which # 0 => frame.struct = world.structs[frame.which]
    /\ \A i \in 1..Len(calls) :
           /\ calls[i].struct = StructOf(calls[i])
           /\ world.base.kind = "Structure" => calls[i].baseStruct = world.base

\* in 'pure' mode two invocations have returned a vector for a structure that
\* differs from its placeholder copy
C14_Witness ==
    /\ world.base = PureArg
    /\ Len(calls) = 2
    /\ \A i \in 1..Len(calls) :
           /\ calls[i].outcome.tag = "ok"
           /\ PureBase(StructOf(calls[i])) # StructOf(calls[i])

\* C15: adjust trains a copy.  self.model is the loaded network, unchanged;
\* adjustedModel is None until an adjust has completed; a successful adjust
\* leaves in adjustedModel the copy it trained and returned; an adjust that
\* fails with NotImplementedError leaves adjustedModel as it was.
C15_AdjustTrainsCopy ==
    /\ adjuster.model = 1
    /\ adjuster.heap[adjuster.model] = LoadedModel
    /\ adjuster.adjustedModel = IF calls = <<>> THEN 0 ELSE calls[Len(calls)].after
    /\ (\A i \in 1..Len(calls) : calls[i].outcome # "ok") => adjuster.adjustedModel = 0
    /\ \A i \in 1..Len(calls) :
           /\ calls[i].before = IF i = 1 THEN 0 ELSE calls[i - 1].after
           /\ calls[i].outcome = "ok" =>
                  /\ calls[i].after = calls[i].returned
                  /\ calls[i].returned = calls[i].copy
                  /\ calls[i].copy # adjuster.model
                  /\ \A j \in 1..(i - 1) : calls[j].copy # calls[i].copy
           /\ calls[i].outcome = "NotImplementedError" => calls[i].after = calls[i].before

\* an adjust that changed the weights of its copy has completed, and a later
\* adjust has failed with NotImplementedError
C15_Witness ==
    /\ Len(calls) = 2
    /\ calls[1].outcome = "ok"
    /\ adjuster.heap[calls[1].returned].weights # LoadedModel.weights
    /\ calls[2].outcome = "NotImplementedError"
    /\ adjuster.adjustedModel = calls[1].returned

\* the finished searches, and the adjust calls, of the run
Searches == {i \in 1..Len(calls) : calls[i].op = "search" /\ calls[i].outcome = "ok"}

AdjustCalls == SelectSeq(calls, LAMBDA c : c.op = "adjust")

\* the losses that decide a search: validation losses if validation > 0,
\* training losses otherwise
DecidingHistory(c) ==
    IF world.validation > 0 THEN c.validationLossHistory ELSE c.trainLossHistory

DecidingData == IF world.validation > 0 THEN "validation" ELSE "train"

\* the lowest loss recorded over all combinations
LowestRecorded(c) ==
    RMinSeq([k \in 1..Len(DecidingHistory(c)) |-> RMinSeq(DecidingHistory(c)[k])])

\* the first combination that recorded the lowest loss
FirstBest(c) ==
    CHOOSE k \in 1..Len(DecidingHistory(c)) :
        /\ RMinSeq(DecidingHistory(c)[k]) = LowestRecorded(c)
        /\ \A j \in 1..(k - 1) : RMinSeq(DecidingHistory(c)[j]) # LowestRecorded(c)

\* C16: a search runs adjust once per combination, in the order of the
\* loops; the model it returns is adjustedModel, is the model of the first
\* combination that recorded the lowest loss, has that combination's
\* hyperparameters, and its loss equals the lowest loss recorded.
C16_SearchReturnsBest ==
    \A i \in Searches :
        LET c == calls[i]
        IN  /\ c.labels = Combinations(world.learningRates, world.optimizers,
                                       world.weightDecays)
            /\ Len(AdjustCalls) = Len(c.labels)
            /\ adjuster.adjustedModel = c.returned
            /\ c.returned = AdjustCalls[FirstBest(c)].returned
            /\ c.bestHyperparameters.learningRate = c.labels[FirstBest(c)].learningRate
            /\ c.bestHyperparameters.optimizer = c.labels[FirstBest(c)].optimizer
            /\ c.bestHyperparameters.weightDecay = c.labels[FirstBest(c)].weightDecay
            /\ Loss(world.lossFunction, DecidingData, adjuster.heap[c.returned].weights)
                   = LowestRecorded(c)

\* C17: the dilute site is located before any collaborator is invoked: an
\* invocation that has called a collaborator knows its dilute site, and an
\* invocation for a structure in which findDilute finds no dilute site fails
\* without a call of the symmetry or of the geometry collaborator.
C17_DiluteBeforeCollaborators ==
    /\ (frame.which # 0 /\ (frame.sym > 0 \/ frame.geom # <<>>)) => frame.diluteSite # -1
    /\ \A i \in 1..Len(calls) :
           findDilute(StructOf(calls[i])).tag = "error" =>
               /\ calls[i].outcome.tag = "error"
               /\ calls[i].sym = 0
               /\ calls[i].geom = <<>>

\* C18: in a successful computation the geometry collaborator is called
\* once for the dilute site and then once per group, for the member of
\* lowest index, the representatives in increasing order; the number of
\* calls is the number of groups plus one.
C18_GeometryCalls ==
    \A i \in Returned :
        LET c == calls[i]
        IN  /\ Len(c.geom) = Len(c.groups) + 1
            /\ c.geom[1] = findDilute(StructOf(c)).value
            /\ \A g \in 1..Len(c.groups) :
                   /\ \E m \in 1..Len(c.groups[g][2]) : c.groups[g][2][m] = c.geom[g + 1]
                   /\ \A m \in 1..Len(c.groups[g][2]) : c.geom[g + 1] <= c.groups[g][2][m]
                   /\ c.geom[g + 1] # c.geom[1]
            /\ \A g, h \in 1..Len(c.groups) : g < h => c.geom[g + 1] < c.geom[h + 1]

\* a vector has been returned after fewer geometry calls than the structure
\* has sites, with two groups or more
C18_Witness ==
    \E i \in Returned :
        /\ Len(calls[i].groups) >= 2
        /\ Len(calls[i].geom) < NSites(StructOf(calls[i]))

\* the member of lowest index of a group
LowestMember(group) ==
    CHOOSE m \in {group[2][k] : k \in 1..Len(group[2])} :
        \A k \in 1..Len(group[2]) : m <= group[2][k]

\* for each group in turn, the sample of its representative once per member
RECURSIVE RepresentativeSamples(_, _, _)
RepresentativeSamples(individual, groups, g) ==
    IF g > Len(groups) THEN <<>>
    ELSE [k \in 1..Len(groups[g][2]) |-> individual[LowestMember(groups[g]) + 1]]
         \o RepresentativeSamples(individual, groups, g + 1)

\* C19: in 'pure' mode the samples handed to the aggregator are the sample
\* of the dilute site, once and first, then for each group the sample of its
\* representative as many times as the group has members; there are as many
\* samples as the structure has sites.
C19_PureSamples ==
    \A i \in Returned :
        world.base = PureArg =>
            LET c == calls[i]
                individual == IndividualSamples(StructOf(c))
            IN  /\ c.samples = <<individual[findDilute(StructOf(c)).value + 1]>>
                                   \o RepresentativeSamples(individual, c.groups, 1)
                /\ Len(c.samples) = NSites(StructOf(c))

\* in 'pure' mode a vector has been returned for a structure with a group of
\* two or more sites
C19_Witness ==
    /\ world.base = PureArg
    /\ \E i \in Returned :
           \E g \in 1..Len(calls[i].groups) : Len(calls[i].groups[g][2]) >= 2

\* C20: generate_local_attributes_diluteSite resolves every neighbor record
\* to one site index that no other neighbor has, and the map it returns
\* holds, for each neighbor in turn, the index of the site that the neighbor
\* is an image of with the record of that neighbor.
C20_NeighborsResolved ==
    \A i \in Returned :
        LET local_env == get_voronoi_polyhedra(world.struct, world.n)
            dict == calls[i].outcome.value[3]
        IN  /\ Len(dict) = Len(local_env)
            /\ \A k \in 1..Len(dict) :
                   /\ MatchesSite(world.struct, dict[k][1], local_env[k].site)
                   /\ dict[k][2] = FaceRecord(local_env[k])
            /\ \A k, l \in 1..Len(dict) : k # l => dict[k][1] # dict[l][1]

\* the group, if any, that holds site n
GroupOf(groups, n) ==
    {g \in 1..Len(groups) : \E m \in 1..Len(groups[g][2]) : groups[g][2][m] = n}

\* the two sites have the same composite key: the same class id, and either
\* no record in the neighbor map or equal records
SameCompositeKey(fr, i, j) ==
    /\ fr.originalEquivalents[i + 1] = fr.originalEquivalents[j + 1]
    /\ DictHas(fr.neighborsFacesDict, i) = DictHas(fr.neighborsFacesDict, j)
    /\ DictHas(fr.neighborsFacesDict, i) =>
           DictGet(fr.neighborsFacesDict, i) = DictGet(fr.neighborsFacesDict, j)

\* C21: once the groups are built, two sites other than the dilute site are
\* in the same group if and only if they have the same class id and either
\* neither has a record in the dilute site's neighbor map or both have and
\* the records are equal.
C21_GroupsByCompositeKey ==
    pc = "evaluate" =>
        \A i, j \in Sites(frame.struct) \ {frame.diluteSite} :
            (GroupOf(frame.groups, i) = GroupOf(frame.groups, j)
             /\ GroupOf(frame.groups, i) # {})
                <=> SameCompositeKey(frame, i, j)

\* groups have been built in which two neighbors of the dilute site share a
\* group and a site of their class that is not a neighbor has another one
C21_Witness ==
    /\ pc = "evaluate"
    /\ \E i, j, k \in Sites(frame.struct) \ {frame.diluteSite} :
           /\ i # j
           /\ DictHas(frame.neighborsFacesDict, i)
           /\ GroupOf(frame.groups, i) = GroupOf(frame.groups, j)
           /\ ~DictHas(frame.neighborsFacesDict, k)
           /\ frame.originalEquivalents[k + 1] = frame.originalEquivalents[i + 1]
           /\ GroupOf(frame.groups, k) # GroupOf(frame.groups, i)

\* entry k (from 0, below 5 * NStruct) of the statistics of lines 176-189 for
\* the samples of a finished invocation: statistic k % 5 of component k \div 5
RawStatistic(c, k) ==
    StructStats([i \in 1..Len(c.samples) |-> c.samples[i][1][(k \div 5) + 1]])[(k % 5) + 1]

\* where position i (from 0) of the statistics is after the deletion of line 197
NewPosition(i) == i - Cardinality({d \in DeletedPositions : d < i})

\* entry i of the statistics, as returned, is that entry divided by entry j
DividedBy(c, i, j) ==
    c.outcome.value[NewPosition(i) + 1] = RDiv(RawStatistic(c, i), RawStatistic(c, j))

\* entry i of the statistics is returned as it was computed
Undivided(c, i) ==
    c.outcome.value[NewPosition(i) + 1] = RawStatistic(c, i)

\* C22 as stated: the retained statistics of the bond-length mean (6, 7, 8)
\* and those of the bond-length CV (10 to 13) are divided by the mean bond
\* length (5), the cell-volume deviation (16) by the mean cell volume (15),
\* and the two divisors are among the deleted positions.
C22_MeanAndCVNormalized ==
    \A i \in Returned :
        /\ \A k \in {6, 7, 8, 10, 11, 12, 13} : DividedBy(calls[i], k, 5)
        /\ DividedBy(calls[i], 16, 15)
        /\ {5, 15} \subseteq DeletedPositions

\* C22, amended: the retained statistics of the bond-length mean (6, 7, 8)
\* are divided by the mean bond length (5), the statistics of the
\* bond-length CV (10 to 13) are returned undivided, the cell-volume
\* deviation (16) is divided by the mean cell volume (15), and the two
\* divisors are among the deleted positions.
C22_MeanNormalized ==
    \A i \in Returned :
        /\ \A k \in {6, 7, 8} : DividedBy(calls[i], k, 5)
        /\ \A k \in {10, 11, 12, 13} : Undivided(calls[i], k)
        /\ DividedBy(calls[i], 16, 15)
        /\ {5, 15} \subseteq DeletedPositions

\* a vector has been returned for samples whose mean bond-length CV is not 0
\* and whose mean bond length is not 1
C22_Witness ==
    \E i \in Returned :
        /\ RawStatistic(calls[i], 10) # R(0)
        /\ RawStatistic(calls[i], 5) # R(1)

\* entry k (from 0, below 6 * K) of the statistics of lines 176-189 for the
\* sites' own attributes: statistic k % 6 of component k \div 6
RawElementalStatistic(c, k) ==
    ElemStats([i \in 1..Len(c.samples) |-> c.samples[i][2][(k \div 6) + 1]])[(k % 6) + 1]

\* the number of elements and the norms of the element fractions for the
\* exponents ps, in that order
CompositionAttributes(c, ps) ==
    <<R(Len(element_dict(StructOf(c))))>>
        \o [k \in 1..Len(ps) |-> NormP(element_dict(StructOf(c)), ps[k])]

\* C23 as stated: the six composition attributes come after all the
\* statistics (structural and elemental), immediately before the four valence
\* fractions, in the order number of elements, then the norms for the
\* exponents 10, 7, 5, 3, 2.
C23_CompositionAfterStatistics ==
    \A i \in Returned :
        SubSeq(calls[i].outcome.value, 245, 250)
            = CompositionAttributes(calls[i], <<10, 7, 5, 3, 2>>)

\* C23, amended: the six composition attributes are at positions 118 to 123
\* (from 0), after the 118 retained statistics of the structural vectors and
\* before the 126 statistics of the sites' own attributes, which the four
\* valence fractions follow; their order is number of elements, then the norms
\* for the exponents 2, 3, 5, 7, 10.
C23_CompositionAfterStructural ==
    \A i \in Returned :
        /\ SubSeq(calls[i].outcome.value, 119, 124)
               = CompositionAttributes(calls[i], <<2, 3, 5, 7, 10>>)
        /\ \A k \in {0, 1, 2, 3} : Undivided(calls[i], k)
        /\ Undivided(calls[i], 5 * NStruct - 1)
        /\ NewPosition(5 * NStruct - 1) = 117
        /\ \A k \in 0..(6 * K - 1) :
               calls[i].outcome.value[125 + k] = RawElementalStatistic(calls[i], k)
        /\ RSum(SubSeq(calls[i].outcome.value, 251, 254)) = R(1)

\* a vector has been returned for a structure of two elements or more whose
\* norms for the exponents 2 and 10 differ
C23_Witness ==
    \E i \in Returned :
        /\ Len(element_dict(StructOf(calls[i]))) >= 2
        /\ NormP(element_dict(StructOf(calls[i])), 2)
               # NormP(element_dict(StructOf(calls[i])), 10)

\* the local environment of the run is one neighbor with a positive area and
\* a positive face distance
SingleNeighbor ==
    /\ Len(world.local_env) = 1
    /\ RLess(R(0), world.local_env[1].area)
    /\ RLess(R(0), world.local_env[1].face_dist)

\* C24: for a site with exactly one neighbor of positive area and face
\* distance local_env_function returns without raising: the effective
\* coordination number is 1, the bond-length mean is twice the face distance,
\* the bond-length CV is 0 and the inscribed-sphere volume is that of the
\* sphere whose radius is the face distance.
C24_SingleNeighbor ==
    (pc = "returned" /\ world.kind \in {"np", "py"} /\ SingleNeighbor) =>
        /\ calls[1].outcome.tag = "ok"
        /\ calls[1].outcome.value[1][1] = R(1)
        /\ calls[1].outcome.value[1][2] = RMul(R(2), world.local_env[1].face_dist)
        /\ calls[1].outcome.value[1][3] = R(0)
        /\ calls[1].outcome.value[1][5]
               = RMul(<<4, 3>>, RMul(world.local_env[1].face_dist,
                                     RMul(world.local_env[1].face_dist,
                                          world.local_env[1].face_dist)))

\* local_env_function has returned for one neighbor of another element, with
\* an area other than 1, whose face distance is not 1/2
C24_Witness ==
    /\ pc = "returned"
    /\ SingleNeighbor
    /\ world.local_env[1].area # R(1)
    /\ world.local_env[1].face_dist # <<1, 2>>
    /\ world.local_env[1].site.sp # world.site.sp
    /\ world.kind = "py"
    /\ calls[1].outcome.tag = "ok"

\* base is the structure struct with the placeholder at every site: the same
\* sites, at the same positions, in the same order
IsPlaceholderCopy(base, struct) ==
    /\ base.kind = "Structure"
    /\ NSites(base.struct) = NSites(struct)
    /\ base.struct.pos = struct.pos
    /\ base.struct.L = struct.L
    /\ \A k \in 1..NSites(struct) : base.struct.sp[k] = "A"

\* C25: generate_voronoi_attributes accepts a Structure or 'pure' as the base
\* argument.  For any other value it raises TypeError before the symmetry
\* collaborator, the geometry collaborator and findDilute are called; for the
\* two accepted values it never raises TypeError.  In 'pure' mode the base
\* that is analysed has the sites of the structure, in the same order, with
\* every species replaced by the one placeholder.
C25_BaseArgument ==
    /\ (frame.which # 0 /\ world.base.kind = "other") =>
           /\ pc = "base"
           /\ frame.sym = 0 /\ frame.geom = <<>> /\ frame.diluteSite = -1
    /\ (frame.which # 0 /\ world.base.kind = "pure" /\ pc # "base") =>
           IsPlaceholderCopy(frame.baseStruct, world.structs[frame.which])
    /\ \A i \in 1..Len(calls) :
           /\ world.base.kind = "other" =>
                  /\ calls[i].outcome = Raise("TypeError")
                  /\ calls[i].sym = 0 /\ calls[i].geom = <<>>
                  /\ calls[i].samples = <<>>
           /\ world.base.kind \in {"pure", "Structure"} =>
                  calls[i].outcome # Raise("TypeError")
           /\ (world.base.kind = "pure" /\ calls[i].sym > 0) =>
                  IsPlaceholderCopy(calls[i].baseStruct, StructOf(calls[i]))

\* an invocation with a value that is neither, for a structure of three
\* sites or more that has a dilute site, has ended
C25_Witness ==
    /\ world.base.kind = "other"
    /\ Len(calls) >= 1
    /\ calls[1].outcome.tag = "error"
    /\ NSites(StructOf(calls[1])) >= 3
    /\ findDilute(StructOf(calls[1])).tag = "ok"

\* C26: for every structure with a valid dilute site the refinement of the
\* keys (lines 110-113) completes without error, also when a neighbor of the
\* dilute site is a periodic image of the dilute site itself: the invocation
\* does not end in an error, and in the keys that the groups are built from
\* the dilute site has the key 'dilute'.
C26_RefinementCompletes ==
    /\ (pc = "evaluate" /\ ValidDilute(frame.struct)) =>
           DictGet(frame.params, frame.diluteSite) = DiluteValue
    /\ \A i \in 1..Len(calls) :
           ValidDilute(StructOf(calls[i])) => calls[i].outcome.tag = "ok"

\* C27: when the base structure that is provided has a number of sites other
\* than the structure's, generate_voronoi_attributes fails with an error: no
\* invocation with such a base returns, and the samples of an invocation
\* that returns are as many as the structure has sites.
C27_BaseOfOtherSize ==
    \A i \in 1..Len(calls) :
        /\ (world.base.kind = "Structure"
            /\ NSites(world.base.struct) # NSites(StructOf(calls[i])))
               => calls[i].outcome.tag = "error"
        /\ calls[i].outcome.tag = "ok"
               => Len(calls[i].samples) = NSites(StructOf(calls[i]))

\* C28: the 'epochs' entry of the best hyperparameters is the number of
\* training epochs after which the best loss was recorded: it lies between 0
\* and epochs, and in the deciding loss list of the best combination, whose
\* epochs + 1 entries start with the loss of the untrained copy, the entry
\* after that many epochs is the lowest loss recorded.
C28_BestEpochs ==
    \A i \in Searches :
        LET c == calls[i]
            losses == DecidingHistory(c)[FirstBest(c)]
            bestEpochs == c.bestHyperparameters.epochs
        IN  /\ Len(losses) = world.epochs + 1
            /\ bestEpochs \in 0..world.epochs
            /\ losses[bestEpochs + 1] = LowestRecorded(c)

====
